---- MODULE Spec2Model ----
(***************************************************************************)
(* Verification model of BeatMarkerAnalyzer's real-time beat tracker.      *)
(*                                                                         *)
(*   - AudioStreamProcessor (the audio worklet): ring buffer, chunking     *)
(*     and the multi-band onset detector.                                  *)
(*   - SimpleBeatTest (the particle-filter beat tracker): the particle     *)
(*     population, its per-hop update and the beat decision, a recorded    *)
(*     session with its replay, and the 10-second synthetic clip.          *)
(*   - The services called on their own: the onset strength of a frame,    *)
(*     FileAudioService.validaFile, BeatDetectionService.generateMarkers,  *)
(*     the start times the FCPXML exporters write,                         *)
(*     CsvBeatService.parseSonicVisualiserCSV and                          *)
(*     CsvBeatService.convertToDetectionResult.                            *)
(*   - The objects followed over several calls: the life cycle of          *)
(*     BeatDetectionService, the progress listeners of                     *)
(*     DockerAnalyzerService.runSonicAnnotator, ExportManager.handleExport *)
(*     and the phases of App.                                              *)
(*                                                                         *)
(* Numbers.  The JavaScript code works on doubles; the model works on      *)
(* integers in fixed units: a sample amplitude is counted in 1/AmpUnit,    *)
(* an onset probability in 1/FluxUnit, a particle position in 1/PosUnit of *)
(* a beat, a beat/down-beat strength in 1/ProbUnit.  A particle weight is  *)
(* the exact rational wnum/wden, wden being common to the population.      *)
(* A time posted by the worklet is counted in samples (seconds times       *)
(* sampleRate).                                                            *)
(***************************************************************************)
EXTENDS Integers, Sequences, FiniteSets

VARIABLES
    \* ---- AudioStreamProcessor ----
    ringBuffer,      \* this.ringBuffer: 0..bufferSize-1 -> amplitude (<<>> when no worklet exists)
    writeIndex,      \* this.writeIndex
    readIndex,       \* this.readIndex
    sampleCount,     \* this.sampleCount: samples written minus samples consumed
    lastOnsetFrame,  \* this.lastOnsetFrame: 0..frameSizeForOnset-1 -> amplitude
    posted,          \* the messages handed to this.port.postMessage, in posting order
    postedAt,        \* for each posted message, the samples received when it was posted
    pc,              \* position inside process(): "idle" between callbacks, "chunks" in the loop of processChunksIfReady
    callbacks,       \* number of process() callbacks so far
    received,        \* number of samples received since the start of the stream
    lastProb,        \* onset probability of the last analysed frame (-1: none yet)
    analysed,        \* number of frames handed to calculateOnsetProbability so far
    stalled,         \* the last loop iteration found no frame: [readIndex, sampleCount] before it, or << >>
    quantum,         \* the block size of a session fed with blocks of one size (0: the sizes vary)
    \* ---- SimpleBeatTest ----
    NUM_PARTICLES,   \* this.NUM_PARTICLES
    TEMPO_MIN,       \* this.TEMPO_MIN
    TEMPO_MAX,       \* this.TEMPO_MAX
    particles,       \* this.particles: sequence of [position, tempo, phase, wnum]
    wden,            \* common denominator of the particle weights (weight = wnum / wden)
    hops,            \* updateParticleFilter calls since the population was seeded
    reseeded,        \* TRUE once initializeParticles has been run again after the constructor
    last,            \* the last call and what it returned or threw
    emitted,         \* number of beat events returned so far
    silent,          \* TRUE while every hop so far had beatProb = 0
    \* ---- a recorded session and its replay ----
    seed,            \* the population the session started from
    tape,            \* the recorded hops: [timestamp, beatProb, downbeatProb, result]
    replayed,        \* the results of the replay of the tape, in hop order
    run,             \* 0: nothing is recorded, 1: recording, 2: replaying
    \* ---- the file, marker and export services ----
    call,            \* the last service call: its name and its arguments
    ret,             \* what that call returned or threw
    \* ---- a service object or a component followed over several calls ----
    self,            \* its fields (<< >> when none is followed)
    log              \* the calls made on it so far, oldest first

streamVars == <<ringBuffer, writeIndex, readIndex, sampleCount, lastOnsetFrame,
                posted, postedAt, pc, callbacks, received, lastProb, analysed, stalled,
                quantum>>
trackerVars == <<NUM_PARTICLES, TEMPO_MIN, TEMPO_MAX, particles, wden, hops,
                 reseeded, last, emitted, silent>>
replayVars == <<seed, tape, replayed, run>>
serviceVars == <<call, ret>>
objectVars == <<self, log>>
vars == <<streamVars, trackerVars, replayVars, serviceVars, objectVars>>

----------------------------------------------------------------------------
(* Arithmetic helpers.                                                     *)

Abs(x) == IF x < 0 THEN -x ELSE x

Min(a, b) == IF a <= b THEN a ELSE b

Max(a, b) == IF a >= b THEN a ELSE b

\* Math.floor of a quotient with a positive divisor.
FloorDiv(a, b) == a \div b

RECURSIVE SumSquares(_, _, _)
\* f[lo]^2 + ... + f[hi-1]^2.
SumSquares(f, lo, hi) ==
    IF hi <= lo THEN 0 ELSE f[lo] * f[lo] + SumSquares(f, lo + 1, hi)

RECURSIVE SqrtSearch(_, _, _)
\* Largest r in lo..hi with r*r <= x.
SqrtSearch(x, lo, hi) ==
    IF lo >= hi THEN lo
    ELSE LET mid == (lo + hi + 1) \div 2
         IN  IF mid * mid <= x THEN SqrtSearch(x, mid, hi)
             ELSE SqrtSearch(x, lo, mid - 1)

RECURSIVE Gcd(_, _)
\* Greatest common divisor of two naturals.
Gcd(a, b) == IF b = 0 THEN a ELSE Gcd(b, a % b)

----------------------------------------------------------------------------
(* AudioStreamProcessor: constants of the constructor.                     *)

bufferSize == 4096

hopSize == 512

frameSizeForOnset == 2048

onsetHopSize == 512

sampleRate == 44100

\* A Float32Array sample of amplitude 1.0 is AmpUnit.
AmpUnit == 1000

\* Band weights 1.2, 1.5 and 0.8, in tenths.
lowWeight == 12

midWeight == 15

highWeight == 8

WeightUnit == lowWeight - 2

\* An onset probability of 1.0 is FluxUnit.
FluxUnit == AmpUnit * WeightUnit

adaptiveScale == 8

\* The emission threshold 0.01 of processChunksIfReady.
onsetThreshold == FluxUnit \div 100

\* What extractChunk returns when too few samples are buffered.
NullChunk == << >>

\* An input block of process(): len samples, the first onsetHopSize of them
\* at amplitude head and the rest at amplitude tail.
BlockSample(block, i) == IF i < onsetHopSize THEN block.head ELSE block.tail

\* The ring buffer after the loop of feedRingBuffer has written the block
\* from index w on: cell j holds the last sample the loop wrote to it.
RingAfterFeed(ring, w, block) ==
    [j \in 0..(bufferSize - 1) |->
        LET d == (j - w) % bufferSize
        IN  IF d >= block.len THEN ring[j]
            ELSE BlockSample(block, d + bufferSize * ((block.len - 1 - d) \div bufferSize))]

extractChunk(chunkSize) ==
    IF sampleCount < chunkSize THEN NullChunk
    ELSE [i \in 0..(chunkSize - 1) |-> ringBuffer[(readIndex + i) % bufferSize]]

\* Math.sqrt on squared amplitudes, rounded down to the amplitude unit.
Sqrt(x) ==
    IF x <= 0 THEN 0
    ELSE IF x <= AmpUnit * AmpUnit THEN SqrtSearch(x, 0, Min(x, AmpUnit))
    ELSE SqrtSearch(x, AmpUnit, 46340)

\* RMS magnitude of one bin of a frame (lines 151-165).
BinMagnitude(frame, len, bins, bin) ==
    LET startIdx == FloorDiv(bin * len, bins)
        endIdx == FloorDiv((bin + 1) * len, bins)
        sampleLength == endIdx - startIdx
    IN  Sqrt(FloorDiv(SumSquares(frame, startIdx, Min(endIdx, len)), sampleLength))

RECURSIVE BandFlux(_, _, _, _, _, _, _)
\* One band of the flux, over the bins start..end-1: <<bandFlux, sampleCount>>
\* (lines 146-173).  The bins are summed in halves.
BandFlux(frame, prev, len, bins, start, end, weight) ==
    IF end <= start THEN <<0, 0>>
    ELSE IF end = start + 1
    THEN LET diff == BinMagnitude(frame, len, bins, start) - BinMagnitude(prev, len, bins, start)
         IN  IF diff > 0 THEN <<diff * weight, 1>> ELSE <<0, 0>>
    ELSE LET mid == (start + end) \div 2
             a == BandFlux(frame, prev, len, bins, start, mid, weight)
             b == BandFlux(frame, prev, len, bins, mid, end, weight)
         IN  <<a[1] + b[1], a[2] + b[2]>>

\* calculateOnsetProbability without the clamp of line 189.
calculateOnsetProbability_Unclamped(frame, prev) ==
    LET len == frameSizeForOnset
        bins == FloorDiv(len, 2)
        lowEnd == FloorDiv(bins, 10)
        midEnd == FloorDiv(bins * 4, 10)
        bands == << BandFlux(frame, prev, len, bins, 0, lowEnd, lowWeight),
                    BandFlux(frame, prev, len, bins, lowEnd, midEnd, midWeight),
                    BandFlux(frame, prev, len, bins, midEnd, bins, highWeight) >>
        contrib == [b \in 1..3 |-> IF bands[b][2] > 0 THEN FloorDiv(bands[b][1], bands[b][2]) ELSE 0]
        counted == [b \in 1..3 |-> IF bands[b][2] > 0 THEN 1 ELSE 0]
        totalFlux == contrib[1] + contrib[2] + contrib[3]
        bandCount == counted[1] + counted[2] + counted[3]
        normalizedFlux == IF bandCount > 0 THEN FloorDiv(totalFlux, bandCount) ELSE 0
    IN  Max(0, FloorDiv(normalizedFlux, adaptiveScale))

\* The value calculateOnsetProbability returns for frame when prev is
\* this.lastOnsetFrame (lines 127-191); it also stores frame as lastOnsetFrame.
calculateOnsetProbability(frame, prev) ==
    LET len == frameSizeForOnset
        bins == FloorDiv(len, 2)
        lowEnd == FloorDiv(bins, 10)
        midEnd == FloorDiv(bins * 4, 10)
        bands == << BandFlux(frame, prev, len, bins, 0, lowEnd, lowWeight),
                    BandFlux(frame, prev, len, bins, lowEnd, midEnd, midWeight),
                    BandFlux(frame, prev, len, bins, midEnd, bins, highWeight) >>
        contrib == [b \in 1..3 |-> IF bands[b][2] > 0 THEN FloorDiv(bands[b][1], bands[b][2]) ELSE 0]
        counted == [b \in 1..3 |-> IF bands[b][2] > 0 THEN 1 ELSE 0]
        totalFlux == contrib[1] + contrib[2] + contrib[3]
        bandCount == counted[1] + counted[2] + counted[3]
        normalizedFlux == IF bandCount > 0 THEN FloorDiv(totalFlux, bandCount) ELSE 0
        probability == Min(FluxUnit, FloorDiv(normalizedFlux, adaptiveScale))
    IN  Max(0, probability)

----------------------------------------------------------------------------
(* AudioStreamProcessor: the inputs explored.                              *)

MaxCallbacks == 2

Levels == {0, AmpUnit}

\* The input blocks: the 128-sample render quantum (silent or loud), a block
\* of one analysis frame plus one hop (every head/tail amplitude), and a loud
\* block one hop longer than the whole ring buffer.
Blocks ==
    {[len |-> 128, head |-> h, tail |-> h] : h \in Levels}
    \cup [len : {frameSizeForOnset + onsetHopSize}, head : Levels, tail : Levels]
    \cup {[len |-> bufferSize + onsetHopSize, head |-> AmpUnit, tail |-> AmpUnit]}

----------------------------------------------------------------------------
(* AudioStreamProcessor: state machine.                                    *)

\* No tracker object exists in a worklet session.
NoTracker ==
    /\ NUM_PARTICLES = 0 /\ TEMPO_MIN = 0 /\ TEMPO_MAX = 0
    /\ particles = << >> /\ wden = 1 /\ hops = 0 /\ reseeded = FALSE
    /\ last = [op |-> "none"] /\ emitted = 0 /\ silent = TRUE

\* No worklet has been constructed.
NoStreamSession ==
    /\ ringBuffer = << >> /\ writeIndex = 0 /\ readIndex = 0 /\ sampleCount = 0
    /\ lastOnsetFrame = << >> /\ posted = << >> /\ postedAt = << >>
    /\ pc = "idle" /\ callbacks = 0 /\ received = 0 /\ lastProb = -1
    /\ analysed = 0 /\ stalled = << >> /\ quantum = 0

\* No session is recorded.
NoReplay == seed = << >> /\ tape = << >> /\ replayed = << >> /\ run = 0

\* No service object or component is followed.
NoObject == self = << >> /\ log = << >>

\* No service has been called.
NoService == call = [op |-> "none"] /\ ret = [kind |-> "none"]

\* The constructor (lines 7-27).
NewAudioStreamProcessor ==
    /\ ringBuffer = [j \in 0..(bufferSize - 1) |-> 0]
    /\ writeIndex = 0
    /\ readIndex = 0
    /\ sampleCount = 0
    /\ lastOnsetFrame = [i \in 0..(frameSizeForOnset - 1) |-> 0]
    /\ posted = << >>
    /\ postedAt = << >>
    /\ pc = "idle"
    /\ callbacks = 0
    /\ received = 0
    /\ lastProb = -1
    /\ analysed = 0
    /\ stalled = << >>
    /\ NoTracker /\ NoReplay /\ NoService /\ NoObject

\* A worklet session fed with blocks of any size.
InitStream == NewAudioStreamProcessor /\ quantum = 0

\* feedRingBuffer (lines 65-71), the whole loop.
feedRingBuffer(block) ==
    /\ ringBuffer' = RingAfterFeed(ringBuffer, writeIndex, block)
    /\ writeIndex' = (writeIndex + block.len) % bufferSize
    /\ sampleCount' = sampleCount + block.len

\* process() with an input channel (lines 33-51): feed the ring buffer and
\* enter processChunksIfReady, whose loop runs while pc = "chunks".
process(block) ==
    /\ pc = "idle"
    /\ callbacks < MaxCallbacks
    /\ feedRingBuffer(block)
    /\ pc' = IF sampleCount' >= onsetHopSize THEN "chunks" ELSE "idle"
    /\ callbacks' = callbacks + 1
    /\ received' = received + block.len
    /\ stalled' = << >>
    /\ UNCHANGED <<readIndex, lastOnsetFrame, posted, postedAt, lastProb, analysed,
                   quantum, trackerVars, replayVars, serviceVars, objectVars>>

\* process() without an input channel (lines 52-57): nothing but a log line.
processNoInput ==
    /\ pc = "idle"
    /\ callbacks < MaxCallbacks
    /\ callbacks' = callbacks + 1
    /\ UNCHANGED <<ringBuffer, writeIndex, readIndex, sampleCount, lastOnsetFrame,
                   posted, postedAt, pc, received, lastProb, analysed, stalled,
                   quantum, trackerVars, replayVars, serviceVars, objectVars>>

\* The message posted for an onset (lines 87-96); time is in samples.
OnsetMessage(onsetProb) ==
    [type |-> "onset", time |-> sampleCount, probability |-> onsetProb]

\* One iteration of the while loop of processChunksIfReady (lines 77-103).
processChunksIfReady ==
    /\ pc = "chunks"
    /\ sampleCount >= onsetHopSize
    /\ LET chunk == extractChunk(frameSizeForOnset)
       IN  IF chunk # NullChunk
           THEN LET onsetProb == calculateOnsetProbability(chunk, lastOnsetFrame)
                IN  /\ lastOnsetFrame' = chunk
                    /\ lastProb' = onsetProb
                    /\ analysed' = analysed + 1
                    /\ stalled' = << >>
                    /\ posted' = IF onsetProb > onsetThreshold
                                 THEN Append(posted, OnsetMessage(onsetProb))
                                 ELSE posted
                    /\ postedAt' = IF onsetProb > onsetThreshold
                                   THEN Append(postedAt, received)
                                   ELSE postedAt
           ELSE /\ stalled' = [readIndex |-> readIndex, sampleCount |-> sampleCount]
                /\ UNCHANGED <<lastOnsetFrame, lastProb, posted, postedAt, analysed>>
    /\ readIndex' = (readIndex + onsetHopSize) % bufferSize
    /\ sampleCount' = sampleCount - onsetHopSize
    /\ pc' = IF sampleCount' >= onsetHopSize THEN "chunks" ELSE "idle"
    /\ UNCHANGED <<ringBuffer, writeIndex, callbacks, received, quantum, trackerVars, replayVars, serviceVars, objectVars>>

NextStream ==
    \/ \E block \in Blocks : process(block)
    \/ processNoInput
    \/ processChunksIfReady

SpecStream == InitStream /\ [][NextStream]_vars

----------------------------------------------------------------------------
(* AudioStreamProcessor: a session in which process() is called for ever   *)
(* with full-scale blocks of one size.                                     *)

MaxQuanta == 40

\* The block sizes followed: the 128-sample render quantum and larger sizes
\* below the analysis frame.
QuantumSizes == {128, 256, 512, 1024}

InitQuantum == NewAudioStreamProcessor /\ quantum \in QuantumSizes

\* process() with an input channel of quantum samples (lines 33-51).  The
\* two counters of the session's history stop at MaxQuanta callbacks; the
\* fields of the processor are not bounded.
processQuantum ==
    /\ pc = "idle"
    /\ feedRingBuffer([len |-> quantum, head |-> AmpUnit, tail |-> AmpUnit])
    /\ pc' = IF sampleCount' >= onsetHopSize THEN "chunks" ELSE "idle"
    /\ callbacks' = Min(callbacks + 1, MaxQuanta)
    /\ received' = Min(received + quantum, MaxQuanta * quantum)
    /\ stalled' = << >>
    /\ UNCHANGED <<readIndex, lastOnsetFrame, posted, postedAt, lastProb, analysed,
                   quantum, trackerVars, replayVars, serviceVars, objectVars>>

NextQuantum ==
    \/ processQuantum
    \/ processChunksIfReady

\* The audio thread keeps calling process(), and a call runs to its end.
SpecQuantum ==
    InitQuantum /\ [][NextQuantum]_vars
        /\ WF_vars(processQuantum) /\ WF_vars(processChunksIfReady)

----------------------------------------------------------------------------
(* AudioStreamProcessor: calculateOnsetProbability called on its own.      *)

\* An amplitude far above full scale, which a Float32 sample can hold.
Overdriven == 20 * AmpUnit

\* A frame of frameSizeForOnset samples that is constant on each of
\* Len(levels) stretches of equal length.
FrameOf(levels) ==
    [i \in 0..(frameSizeForOnset - 1) |->
        levels[(i * Len(levels)) \div frameSizeForOnset + 1]]

\* The frames handed in: constant on each quarter, at rest or at full
\* scale, and the frame overdriven throughout.
FrameShapes ==
    [1..4 -> Levels] \cup {<<Overdriven, Overdriven>>}

\* The previous frames: constant on each half, at full scale either side
\* of zero or at rest.
PreviousShapes == [1..2 -> {-AmpUnit, 0, AmpUnit}]

\* A call that has not returned yet.
Pending == [kind |-> "pending"]

\* The arguments of the call are drawn; neither a worklet session nor a
\* tracker is followed.
InitOnset ==
    /\ NoStreamSession /\ NoTracker /\ NoReplay /\ NoObject
    /\ \E f \in FrameShapes, q \in PreviousShapes :
           call = [op |-> "calculateOnsetProbability", frame |-> f, prev |-> q]
    /\ ret = Pending

\* calculateOnsetProbability(frame) with this.lastOnsetFrame = prev
\* (lines 127-191), which has no throw statement.
onsetCall ==
    /\ ret = Pending
    /\ ret' = [kind |-> "value",
               value |-> calculateOnsetProbability(FrameOf(call.frame), FrameOf(call.prev))]
    /\ UNCHANGED <<call, objectVars, streamVars, trackerVars, replayVars>>

SpecOnset == InitOnset /\ [][onsetCall]_vars

\* C13: calculateOnsetProbability returns a value in [0, 1] without raising,
\* and returns 0 for an all-zero frame whatever the previous frame.
C13_OnsetProbabilityInUnitRange ==
    (call.op = "calculateOnsetProbability" /\ ret # Pending) =>
        /\ ret.kind = "value"
        /\ 0 <= ret.value /\ ret.value <= FluxUnit
        /\ (\A k \in 1..Len(call.frame) : call.frame[k] = 0) => ret.value = 0

\* A silent frame after a previous frame that was not silent.
C13_Witness ==
    /\ call.op = "calculateOnsetProbability" /\ ret # Pending
    /\ \A k \in 1..Len(call.frame) : call.frame[k] = 0
    /\ \E k \in 1..Len(call.prev) : call.prev[k] # 0
    /\ ret.value = 0

----------------------------------------------------------------------------
(* AudioStreamProcessor: properties.                                       *)

\* C1: the number of buffered unread samples never exceeds the capacity of
\* the ring buffer.
C1_UnreadWithinCapacity == sampleCount <= bufferSize

\* C2: the times of the posted onset messages never decrease in posting
\* order, and each is the amount of audio received since the start of the
\* stream.
C2_OnsetTimesMonotone ==
    /\ \A i, j \in 1..Len(posted) : i < j => posted[i].time <= posted[j].time
    /\ \A i \in 1..Len(posted) : posted[i].time = postedAt[i]

----------------------------------------------------------------------------
(* SimpleBeatTest: constants and units.                                    *)

HOP_SIZE_MS == 46

TEMPO_MIN_DEFAULT == 60

TEMPO_MAX_DEFAULT == 200

\* A particle position of 1.0 (one beat) is PosUnit.
PosUnit == 3000

\* A beat or down-beat strength of 1.0 is ProbUnit.
ProbUnit == 10

\* What updateParticleFilter returns on a hop without a beat.
Null == [type |-> "null"]

\* The grid of isNearBeatPosition, 0, 0.25, 0.5 and 0.75 of a beat.
beatPositions == {0, PosUnit \div 4, PosUnit \div 2, (3 * PosUnit) \div 4}

\* The tolerance 0.1 of isNearBeatPosition.
threshold == PosUnit \div 10

RECURSIVE SumSeq(_, _)
\* Array.reduce with a sum: xs[1] + ... + xs[n].
SumSeq(xs, n) == IF n = 0 THEN 0 ELSE SumSeq(xs, n - 1) + xs[n]

RECURSIVE GcdOver(_, _, _)
\* Greatest common divisor of g and the weight numerators of ps[1..n].
GcdOver(ps, n, g) == IF n = 0 THEN g ELSE GcdOver(ps, n - 1, Gcd(g, Abs(ps[n].wnum)))

\* The same weights over the smallest common denominator.
Reduced(ps, den) ==
    LET g == GcdOver(ps, Len(ps), den)
    IN  [particles |-> [i \in 1..Len(ps) |-> [ps[i] EXCEPT !.wnum = @ \div g]],
         wden |-> den \div g]

\* A weighted average is kept as the mixed number whole + rem/den with
\* 0 <= rem < den, which stays inside the machine integers.
Mixed(whole, rem, den) == [whole |-> whole, rem |-> rem, den |-> den]

MixedPlus(m, k) == [m EXCEPT !.whole = @ + k]

\* Math.abs.
MixedAbs(m) ==
    IF m.whole >= 0 THEN m
    ELSE IF m.rem = 0 THEN Mixed(-m.whole, 0, m.den)
    ELSE Mixed(-m.whole - 1, m.den - m.rem, m.den)

MixedLess(a, b) == a.whole < b.whole \/ (a.whole = b.whole /\ a.rem < b.rem)

\* Math.min.
MixedMin(a, b) == IF MixedLess(b, a) THEN b ELSE a

\* m < k for an integer k.
MixedBelow(m, k) == m.whole < k

RECURSIVE WeightedSum(_, _, _, _)
\* ps[1][property] * weight + ... + ps[n][property] * weight as <<whole, rem>>,
\* the weights being wnum/den.
WeightedSum(ps, n, property, den) ==
    IF n = 0 THEN <<0, 0>>
    ELSE LET acc == WeightedSum(ps, n - 1, property, den)
             term == ps[n][property] * ps[n].wnum
             rem == acc[2] + (term % den)
         IN  IF rem >= den THEN <<acc[1] + (term \div den) + 1, rem - den>>
             ELSE <<acc[1] + (term \div den), rem>>

----------------------------------------------------------------------------
(* SimpleBeatTest: the particle filter (src/electron/preload.ts).          *)

\* Sum of the weight numerators.
WeightSum(ps) == SumSeq([i \in 1..Len(ps) |-> ps[i].wnum], Len(ps))

\* getWeightedAverage(property) (lines 255-257).
getWeightedAverage(ps, den, property) ==
    LET sum == WeightedSum(ps, Len(ps), property, den)
    IN  Mixed(sum[1], sum[2], den)

\* isNearBeatPosition measuring the plain distance, without the two
\* wrapped terms.
isNearBeatPosition_NoWrap(position) ==
    \E beatPos \in beatPositions :
        MixedBelow(MixedAbs(MixedPlus(position, -beatPos)), threshold)

\* isNearBeatPosition (lines 241-253).
isNearBeatPosition(position) ==
    \E beatPos \in beatPositions :
        LET distance == MixedMin(MixedAbs(MixedPlus(position, -beatPos)),
                                 MixedMin(MixedAbs(MixedPlus(position, -beatPos + PosUnit)),
                                          MixedAbs(MixedPlus(position, -beatPos - PosUnit))))
        IN  MixedBelow(distance, threshold)

\* The predict step advancing the measure slot without the modulo.
UpdateParticle_NoModulo(particle, beatProb, downbeatProb) ==
    LET advanced == particle.position + (HOP_SIZE_MS * particle.tempo * PosUnit) \div 60000
        wrapped == advanced >= PosUnit
        position == IF wrapped THEN advanced - PosUnit ELSE advanced
        phase == IF wrapped THEN particle.phase + 1 ELSE particle.phase
        expectedBeatProb ==
            IF position < PosUnit \div 10 \/ position > (9 * PosUnit) \div 10
            THEN (8 * ProbUnit) \div 10 ELSE (2 * ProbUnit) \div 10
        expectedDownbeatProb == IF phase = 0 THEN expectedBeatProb ELSE 0
        beatLikelihood == ProbUnit - Abs(beatProb - expectedBeatProb)
        downbeatLikelihood == ProbUnit - Abs(downbeatProb - expectedDownbeatProb)
    IN  [position |-> position, tempo |-> particle.tempo, phase |-> phase,
         wnum |-> particle.wnum * (beatLikelihood * 7 + downbeatLikelihood * 3)]

\* The predict and weight-update steps on one particle (lines 262-277); the
\* weight numerator is now over ProbUnit^2 times the old denominator.
UpdateParticle(particle, beatProb, downbeatProb) ==
    LET advanced == particle.position + (HOP_SIZE_MS * particle.tempo * PosUnit) \div 60000
        wrapped == advanced >= PosUnit
        position == IF wrapped THEN advanced - PosUnit ELSE advanced
        phase == IF wrapped THEN (particle.phase + 1) % 4 ELSE particle.phase
        expectedBeatProb ==
            IF position < PosUnit \div 10 \/ position > (9 * PosUnit) \div 10
            THEN (8 * ProbUnit) \div 10 ELSE (2 * ProbUnit) \div 10
        expectedDownbeatProb == IF phase = 0 THEN expectedBeatProb ELSE 0
        beatLikelihood == ProbUnit - Abs(beatProb - expectedBeatProb)
        downbeatLikelihood == ProbUnit - Abs(downbeatProb - expectedDownbeatProb)
    IN  [position |-> position, tempo |-> particle.tempo, phase |-> phase,
         wnum |-> particle.wnum * (beatLikelihood * 7 + downbeatLikelihood * 3)]

\* The normalisation of the weights (lines 280-284): ps holds the updated
\* numerators over the denominator den.
NormalizeWeights(ps, den) ==
    LET totalWeight == WeightSum(ps)
    IN  IF totalWeight > 0 THEN Reduced(ps, totalWeight) ELSE Reduced(ps, den)

\* The beat decision with the down-beat decided on its strength alone and
\* an event returned for a beat or a down-beat.
BeatEvent_DownbeatAlone(timestamp, beatProb, downbeatProb, avgPosition, avgTempo) ==
    LET isBeat == beatProb > (2 * ProbUnit) \div 10 /\ isNearBeatPosition(avgPosition)
        isDownbeat == 2 * downbeatProb > (3 * ProbUnit) \div 10
    IN  IF isBeat \/ isDownbeat
        THEN [type |-> "beat", timestamp |-> timestamp, beat |-> isBeat,
              downbeat |-> isDownbeat, tempo |-> avgTempo,
              confidence |-> Max(beatProb, downbeatProb)]
        ELSE Null

\* The beat decision on the position alone, without the strength test.
BeatEvent_NoStrengthTest(timestamp, beatProb, downbeatProb, avgPosition, avgTempo) ==
    LET isBeat == isNearBeatPosition(avgPosition)
        isDownbeat == 2 * downbeatProb > (3 * ProbUnit) \div 10 /\ isBeat
    IN  IF isBeat
        THEN [type |-> "beat", timestamp |-> timestamp, beat |-> TRUE,
              downbeat |-> isDownbeat, tempo |-> avgTempo,
              confidence |-> Max(beatProb, downbeatProb)]
        ELSE Null

\* An event stamped with the number of hops the process has run so far, in
\* place of the timestamp that was handed in.
BeatEvent_WallClock(timestamp, beatProb, downbeatProb, avgPosition, avgTempo) ==
    LET isBeat == beatProb > (2 * ProbUnit) \div 10 /\ isNearBeatPosition(avgPosition)
        isDownbeat == 2 * downbeatProb > (3 * ProbUnit) \div 10 /\ isBeat
    IN  IF isBeat
        THEN [type |-> "beat",
              timestamp |-> (Len(tape) + Len(replayed)) * HOP_SIZE_MS,
              beat |-> TRUE, downbeat |-> isDownbeat, tempo |-> avgTempo,
              confidence |-> Max(beatProb, downbeatProb)]
        ELSE Null

\* The beat decision and the value returned (lines 289-304).  The down-beat
\* threshold 0.15 lies between two strength units, hence the doubling.
BeatEvent(timestamp, beatProb, downbeatProb, avgPosition, avgTempo) ==
    LET isBeat == beatProb > (2 * ProbUnit) \div 10 /\ isNearBeatPosition(avgPosition)
        isDownbeat == 2 * downbeatProb > (3 * ProbUnit) \div 10 /\ isBeat
    IN  IF isBeat
        THEN [type |-> "beat", timestamp |-> timestamp, beat |-> TRUE,
              downbeat |-> isDownbeat, tempo |-> avgTempo,
              confidence |-> Max(beatProb, downbeatProb)]
        ELSE Null

----------------------------------------------------------------------------
(* SimpleBeatTest: the configurations, random draws and inputs explored.   *)

MaxParticles == 3

MaxHops == 2

\* The configurations: the default tempo range, the inverted one and an
\* empty one.
TempoRanges == {<<TEMPO_MIN_DEFAULT, TEMPO_MAX_DEFAULT>>,
                <<TEMPO_MAX_DEFAULT, TEMPO_MIN_DEFAULT>>,
                <<TEMPO_MIN_DEFAULT, TEMPO_MIN_DEFAULT>>}

ParticleCounts == 0..MaxParticles

\* Math.random() for the position: 0.054 and 0.95 of a beat.
PositionDraws == {(54 * PosUnit) \div 1000, (950 * PosUnit) \div 1000}

\* Math.floor(Math.random() * 4) for the measure slot.
PhaseDraws == {0, 3}

\* The tempi followed, in BPM.
TempoGrid == {TEMPO_MIN_DEFAULT, TEMPO_MAX_DEFAULT}

\* TEMPO_MIN + Math.random() * (TEMPO_MAX - TEMPO_MIN) with Math.random() in
\* [0, 1): the tempi of the grid the expression can yield (line 210).
TempoDraws(tmin, tmax) ==
    {t \in TempoGrid : \/ tmin <= t /\ t < tmax
                       \/ tmax < t /\ t <= tmin
                       \/ tmin = tmax /\ t = tmin}

\* (beatProb, downbeatProb) pairs inside [0, 1].
Observations == {<<0, 0>>, <<0, 10>>, <<2, 2>>, <<3, 1>>, <<10, 10>>}

\* Pairs with strengths outside [0, 1] too, which nothing in the code rejects.
AnyObservations == {<<0, 0>>, <<3, 1>>, <<10, 10>>, <<20, 0>>, <<20, 20>>}

----------------------------------------------------------------------------
(* SimpleBeatTest: state machine.                                          *)

\* No worklet exists in a tracker session.
NoStream == NoStreamSession

\* A pushed particle given the weight 1.0.
SeedWeight_One(n) == <<1, 1>>

\* The weight 1.0 / NUM_PARTICLES of a pushed particle (line 212), as
\* <<numerator, denominator>>.
SeedWeight(n) == <<1, n>>

\* One pushed particle (lines 208-213).
SeedParticle(position, tempo, phase, n) ==
    [position |-> position, tempo |-> tempo, phase |-> phase, wnum |-> SeedWeight(n)[1]]

\* The particles one iteration can push, for the measure slots in phases.
ParticleDraws(n, tmin, tmax, phases) ==
    {SeedParticle(x, t, ph, n) :
        x \in PositionDraws, t \in TempoDraws(tmin, tmax), ph \in phases}

\* initializeParticles pushing onto the population it finds.
PopulationsAfterInit_Append(old, n, draws) == {old \o fresh : fresh \in [1..n -> draws]}

\* initializeParticles (lines 205-216) on the population old: the array is
\* emptied, then n particles are pushed.
PopulationsAfterInit(old, n, draws) == [1..n -> draws]

\* The common weight denominator after initializeParticles.
SeedDenominator(n) == IF n > 0 THEN SeedWeight(n)[2] ELSE 1

\* The record of a call of initializeParticles, which throws nothing.
InitCall == [op |-> "initializeParticles", threw |-> "none"]

\* new SimpleBeatTest() (lines 195-203), for each configuration.
NewSimpleBeatTest ==
    /\ NoStream /\ NoService /\ NoObject
    /\ NUM_PARTICLES \in ParticleCounts
    /\ \E range \in TempoRanges : TEMPO_MIN = range[1] /\ TEMPO_MAX = range[2]
    /\ particles \in PopulationsAfterInit(<< >>, NUM_PARTICLES,
                        ParticleDraws(NUM_PARTICLES, TEMPO_MIN, TEMPO_MAX, PhaseDraws))
    /\ wden = SeedDenominator(NUM_PARTICLES)
    /\ hops = 0
    /\ reseeded = FALSE
    /\ last = InitCall
    /\ emitted = 0
    /\ silent = TRUE

\* A tracker session of which nothing is recorded.
InitTracker == NewSimpleBeatTest /\ NoReplay

\* initializeParticles() run again on a live tracker (lines 205-216); the
\* re-run is followed for the measure slot 0.
initializeParticles ==
    /\ ~reseeded
    /\ particles' \in PopulationsAfterInit(particles, NUM_PARTICLES,
                        ParticleDraws(NUM_PARTICLES, TEMPO_MIN, TEMPO_MAX, {0}))
    /\ wden' = SeedDenominator(NUM_PARTICLES)
    /\ hops' = 0
    /\ reseeded' = TRUE
    /\ last' = InitCall
    /\ emitted' = 0
    /\ silent' = TRUE
    /\ UNCHANGED <<NUM_PARTICLES, TEMPO_MIN, TEMPO_MAX, streamVars, serviceVars, objectVars>>

\* updateParticleFilter(timestamp, beatProb, downbeatProb) (lines 259-305).
updateParticleFilter(timestamp, beatProb, downbeatProb) ==
    /\ LET updated == [i \in 1..Len(particles) |->
                          UpdateParticle(particles[i], beatProb, downbeatProb)]
           normalized == NormalizeWeights(updated, wden * ProbUnit * ProbUnit)
           avgPosition == getWeightedAverage(normalized.particles, normalized.wden, "position")
           avgTempo == getWeightedAverage(normalized.particles, normalized.wden, "tempo")
           result == BeatEvent(timestamp, beatProb, downbeatProb, avgPosition, avgTempo)
       IN  /\ particles' = normalized.particles
           /\ wden' = normalized.wden
           /\ last' = [op |-> "updateParticleFilter", threw |-> "none",
                       beatProb |-> beatProb, downbeatProb |-> downbeatProb,
                       avgPosition |-> avgPosition, result |-> result]
           /\ emitted' = IF result # Null THEN emitted + 1 ELSE emitted
    /\ hops' = hops + 1
    /\ silent' = (silent /\ beatProb = 0)
    /\ UNCHANGED <<NUM_PARTICLES, TEMPO_MIN, TEMPO_MAX, reseeded, streamVars, serviceVars, objectVars>>

\* The hops of testWithSyntheticData (lines 317-334): hop number frame has
\* the timestamp frame * HOP_SIZE_MS, in milliseconds.
NextTracker ==
    \/ /\ hops < MaxHops
       /\ \E o \in Observations : updateParticleFilter(hops * HOP_SIZE_MS, o[1], o[2])
       /\ UNCHANGED replayVars
    \/ initializeParticles /\ UNCHANGED replayVars

SpecTracker == InitTracker /\ [][NextTracker]_vars

NextTrackerAny ==
    \/ /\ hops < MaxHops
       /\ \E o \in AnyObservations : updateParticleFilter(hops * HOP_SIZE_MS, o[1], o[2])
       /\ UNCHANGED replayVars
    \/ initializeParticles /\ UNCHANGED replayVars

SpecTrackerAny == InitTracker /\ [][NextTrackerAny]_vars

----------------------------------------------------------------------------
(* SimpleBeatTest: a session that is recorded, then replayed through a     *)
(* second tracker constructed with the same population.                    *)

\* A population as it is kept for the replay.
Population(ps, den) == [particles |-> ps, wden |-> den]

\* The first session: a fresh tracker, its population kept as the seed.
InitReplay ==
    /\ NewSimpleBeatTest
    /\ seed = Population(particles, wden)
    /\ tape = << >>
    /\ replayed = << >>
    /\ run = 1

\* A hop of the first session (lines 317-334), recorded with its result.
recordHop(beatProb, downbeatProb) ==
    /\ run = 1
    /\ hops < MaxHops
    /\ updateParticleFilter(hops * HOP_SIZE_MS, beatProb, downbeatProb)
    /\ tape' = Append(tape, [timestamp |-> hops * HOP_SIZE_MS, beatProb |-> beatProb,
                              downbeatProb |-> downbeatProb, result |-> last'.result])
    /\ UNCHANGED <<seed, replayed, run>>

\* The second session: a tracker whose initializeParticles made the draws of
\* the first one (lines 195-216 under the same seed).
startReplay ==
    /\ run = 1
    /\ tape # << >>
    /\ particles' = seed.particles
    /\ wden' = seed.wden
    /\ hops' = 0
    /\ last' = InitCall
    /\ emitted' = 0
    /\ silent' = TRUE
    /\ run' = 2
    /\ UNCHANGED <<NUM_PARTICLES, TEMPO_MIN, TEMPO_MAX, reseeded, seed, tape, replayed,
                   streamVars, serviceVars, objectVars>>

\* A hop of the second session: the next recorded tuple is fed.
replayHop ==
    /\ run = 2
    /\ hops < Len(tape)
    /\ LET hop == tape[hops + 1]
       IN  updateParticleFilter(hop.timestamp, hop.beatProb, hop.downbeatProb)
    /\ replayed' = Append(replayed, last'.result)
    /\ UNCHANGED <<seed, tape, run>>

NextReplay ==
    \/ \E o \in Observations : recordHop(o[1], o[2])
    \/ startReplay
    \/ replayHop

SpecReplay == InitReplay /\ [][NextReplay]_vars

----------------------------------------------------------------------------
(* SimpleBeatTest: testWithSyntheticData, the 10-second synthetic clip.    *)
(* Feature values and energies are counted in 1/FeatUnit.                  *)

FeatUnit == 1000

\* const durationSeconds = 10 (line 311).
durationSeconds == 10

\* new Float32Array(272) (line 321).
featureCount == 272

\* Math.floor(durationSeconds * framesPerSecond) with framesPerSecond =
\* 1000 / HOP_SIZE_MS (lines 312-313).
totalFrames == (durationSeconds * 1000) \div HOP_SIZE_MS

\* Math.sin(x * Math.PI * 2) for x = k/250 of a turn, k = 0..249, in
\* 1/FeatUnit: rhythmPhase = (timestamp * 2) % 1 only takes these values,
\* 2 * HOP_SIZE_MS being 92/1000 = 23/250 (lines 322-323).
SinOfTurn ==
    <<0, 25, 50, 75, 100, 125, 150, 175, 200, 224, 249, 273, 297, 321, 345,
      368, 391, 414, 437, 460, 482, 504, 525, 546, 567, 588, 608, 628, 647,
      666, 685, 703, 720, 738, 754, 771, 786, 802, 816, 831, 844, 858, 870,
      882, 894, 905, 915, 925, 934, 943, 951, 959, 965, 972, 977, 982, 987,
      990, 994, 996, 998, 999, 1000, 1000, 999, 998, 996, 994, 990, 987,
      982, 977, 972, 965, 959, 951, 943, 934, 925, 915, 905, 894, 882, 870,
      858, 844, 831, 816, 802, 786, 771, 754, 738, 720, 703, 685, 666, 647,
      628, 608, 588, 567, 546, 525, 504, 482, 460, 437, 414, 391, 368, 345,
      321, 297, 273, 249, 224, 200, 175, 150, 125, 100, 75, 50, 25, 0, -25,
      -50, -75, -100, -125, -150, -175, -200, -224, -249, -273, -297, -321,
      -345, -368, -391, -414, -437, -460, -482, -504, -525, -546, -567,
      -588, -608, -628, -647, -666, -685, -703, -720, -738, -754, -771,
      -786, -802, -816, -831, -844, -858, -870, -882, -894, -905, -915,
      -925, -934, -943, -951, -959, -965, -972, -977, -982, -987, -990,
      -994, -996, -998, -999, -1000, -1000, -999, -998, -996, -994, -990,
      -987, -982, -977, -972, -965, -959, -951, -943, -934, -925, -915,
      -905, -894, -882, -870, -858, -844, -831, -816, -802, -786, -771,
      -754, -738, -720, -703, -685, -666, -647, -628, -608, -588, -567,
      -546, -525, -504, -482, -460, -437, -414, -391, -368, -345, -321,
      -297, -273, -249, -224, -200, -175, -150, -125, -100, -75, -50, -25>>

\* Math.sin(i * 0.1) for i = 0..271, in 1/FeatUnit (line 327).
SinOfIndex ==
    <<0, 100, 199, 296, 389, 479, 565, 644, 717, 783, 841, 891, 932, 964,
      985, 997, 1000, 992, 974, 946, 909, 863, 808, 746, 675, 598, 516,
      427, 335, 239, 141, 42, -58, -158, -256, -351, -443, -530, -612,
      -688, -757, -818, -872, -916, -952, -978, -994, -1000, -996, -982,
      -959, -926, -883, -832, -773, -706, -631, -551, -465, -374, -279,
      -182, -83, 17, 117, 215, 312, 405, 494, 578, 657, 729, 794, 850, 899,
      938, 968, 988, 999, 999, 989, 970, 941, 902, 855, 798, 734, 663, 585,
      501, 412, 319, 223, 124, 25, -75, -174, -272, -366, -458, -544, -625,
      -700, -768, -828, -880, -923, -957, -981, -995, -1000, -995, -979,
      -954, -919, -875, -823, -762, -694, -618, -537, -450, -358, -263,
      -166, -66, 34, 133, 232, 327, 420, 509, 592, 670, 740, 804, 859, 906,
      944, 972, 991, 999, 998, 987, 966, 935, 895, 846, 788, 723, 650, 571,
      486, 397, 303, 206, 108, 8, -92, -191, -288, -382, -472, -558, -638,
      -712, -778, -837, -888, -929, -961, -984, -997, -1000, -993, -976,
      -949, -913, -867, -813, -751, -681, -605, -522, -435, -342, -247,
      -149, -50, 50, 150, 248, 343, 435, 523, 606, 682, 752, 814, 868, 913,
      949, 976, 993, 1000, 997, 984, 961, 929, 887, 837, 778, 711, 637,
      557, 472, 381, 287, 190, 91, -9, -109, -207, -304, -398, -487, -572,
      -651, -723, -789, -846, -895, -935, -966, -987, -998, -999, -990,
      -972, -943, -906, -859, -803, -740, -669, -591, -508, -419, -327,
      -231, -132, -33, 67, 166, 264, 359, 450, 537, 619, 694, 763, 823,
      876, 920, 954, 979, 995, 1000, 995, 981, 956, 922>>

\* TEMPO_MIN + Math.random() * (TEMPO_MAX - TEMPO_MIN) (line 210): the tempi
\* followed in the synthetic run, in BPM.
SyntheticTempi == {TEMPO_MIN_DEFAULT, 2 * TEMPO_MIN_DEFAULT, 3 * TEMPO_MIN_DEFAULT}

\* this.NUM_PARTICLES = 10 (line 197).
NUM_PARTICLES_DEFAULT == 10

\* (Math.random() - 0.5) * 0.1 (line 327): the two ends of its range; one
\* draw is followed per hop, repeated for every feature of the hop.
NoiseDraws == {-(FeatUnit \div 20), FeatUnit \div 20 - 1}

\* const baseEnergy = 0.5 + 0.3 * Math.sin(rhythmPhase * Math.PI * 2) with
\* rhythmPhase = (timestamp * 2) % 1 (lines 318-323); timestamp in ms.
baseEnergy(timestamp) ==
    LET rhythmPhase == (timestamp * 2) % 1000
    IN  FeatUnit \div 2 + (3 * SinOfTurn[rhythmPhase \div 4 + 1]) \div 10

\* The features of one hop (lines 321-328), as a sequence indexed from 1.
SyntheticFeatures(timestamp, noise) ==
    [j \in 1..featureCount |->
        (baseEnergy(timestamp) * (FeatUnit + SinOfIndex[j] \div 5)) \div FeatUnit + noise]

RECURSIVE SumOfRange(_, _, _)
\* xs[lo] + ... + xs[hi], summed by halves.
SumOfRange(xs, lo, hi) ==
    IF hi < lo THEN 0
    ELSE IF hi = lo THEN xs[lo]
    ELSE LET mid == (lo + hi) \div 2
         IN  SumOfRange(xs, lo, mid) + SumOfRange(xs, mid + 1, hi)

\* simulateInference(features) (lines 218-239); the strengths returned are
\* in 1/FeatUnit.
simulateInference(features) ==
    LET n == Len(features)
        energy == SumOfRange([j \in 1..n |-> Abs(features[j])], 1, n)
        spectralVariance == SumOfRange([j \in 1..n |-> features[j] * features[j]], 1, n)
        normalizedEnergy == energy \div n
        variance == spectralVariance \div n - normalizedEnergy * normalizedEnergy
        energyContrib == Max(0, Min(FeatUnit, normalizedEnergy * 2))
        varianceContrib == Max(0, Min(FeatUnit, (variance * 5) \div FeatUnit))
        beatProb == Max(energyContrib, (varianceContrib * 7) \div 10)
    IN  [beatProb |-> beatProb, downbeatProb |-> (beatProb * 3) \div 10]

\* A strength in 1/FeatUnit at the resolution 1/ProbUnit of the tracker.
Strength(x) == (x * ProbUnit) \div FeatUnit

\* new SimpleBeatTest() (lines 195-216) with the constructor's own
\* configuration; the random draws followed are those that repeat for
\* every particle.
InitSynthetic ==
    /\ NoStream /\ NoService /\ NoReplay /\ NoObject
    /\ NUM_PARTICLES = NUM_PARTICLES_DEFAULT
    /\ TEMPO_MIN = TEMPO_MIN_DEFAULT
    /\ TEMPO_MAX = TEMPO_MAX_DEFAULT
    /\ \E x \in PositionDraws, t \in SyntheticTempi, ph \in PhaseDraws :
           particles = [i \in 1..NUM_PARTICLES |-> SeedParticle(x, t, ph, NUM_PARTICLES)]
    /\ wden = SeedDenominator(NUM_PARTICLES)
    /\ hops = 0
    /\ reseeded = FALSE
    /\ last = InitCall
    /\ emitted = 0
    /\ silent = TRUE

\* One iteration of the loop of testWithSyntheticData (lines 317-347): hops
\* is the loop variable frame and emitted is beatEvents.length.
syntheticHop(noise) ==
    /\ hops < totalFrames
    /\ LET timestamp == hops * HOP_SIZE_MS
           inference == simulateInference(SyntheticFeatures(timestamp, noise))
       IN  updateParticleFilter(timestamp, Strength(inference.beatProb),
                                Strength(inference.downbeatProb))
    /\ UNCHANGED replayVars

NextSynthetic == \E noise \in NoiseDraws : syntheticHop(noise)

SpecSynthetic == InitSynthetic /\ [][NextSynthetic]_vars

----------------------------------------------------------------------------
(* SimpleBeatTest: properties.                                             *)

Updated == last.op = "updateParticleFilter"

\* The configuration is invalid: no particle, or an empty or inverted range.
InvalidConfiguration == NUM_PARTICLES < 1 \/ TEMPO_MIN >= TEMPO_MAX

\* The beat condition of the last hop: a strength above 0.2 and an average
\* position near the grid.
BeatConditionHeld ==
    last.beatProb > (2 * ProbUnit) \div 10 /\ isNearBeatPosition(last.avgPosition)

\* C3: every returned event has beat = true, and has downbeat = true only if
\* the beat condition held on that hop.
C3_DownbeatImpliesBeat ==
    (Updated /\ last.result # Null) =>
        /\ last.result.beat = TRUE
        /\ last.result.downbeat => BeatConditionHeld

\* A down-beat event is returned by a tracker that holds particles.
C3_Witness ==
    /\ Updated /\ last.result # Null /\ last.result.downbeat
    /\ last.downbeatProb > ProbUnit \div 10 /\ NUM_PARTICLES > 0

\* C4: while the strength has been 0 on every hop, no hop returns an event,
\* whatever the down-beat strength and the population.
C4_SilenceEmitsNothing ==
    /\ silent => emitted = 0
    /\ (Updated /\ last.beatProb = 0) => last.result = Null

\* Two silent hops, the last with a strong down-beat and with the average
\* position on the grid.
C4_Witness ==
    /\ Updated /\ silent /\ hops >= 2 /\ NUM_PARTICLES > 0
    /\ last.downbeatProb = ProbUnit
    /\ isNearBeatPosition(last.avgPosition)

\* The position num/den folded into [0, 1).
FoldedPosition(m) == Mixed(m.whole % PosUnit, m.rem, m.den)

\* Distance on the circle of positions between m and the grid position g.
CircularDistance(m, g) ==
    LET d == MixedAbs(MixedPlus(FoldedPosition(m), -g))
    IN  MixedMin(d, MixedAbs(MixedPlus(d, -PosUnit)))

\* The average position of the population as it is after the hop.
AveragePositionNow == getWeightedAverage(particles, wden, "position")

\* C5: a hop returns an event if and only if the strength is above 0.2 and
\* the weighted average position after predict and normalize is at circular
\* distance below 0.1 from the grid.
C5_BeatIffStrongAndNearGrid ==
    Updated =>
        (last.result # Null <=>
            /\ last.beatProb > (2 * ProbUnit) \div 10
            /\ \E g \in beatPositions :
                   MixedBelow(CircularDistance(AveragePositionNow, g), threshold))

\* An event for an average position just below 1.0, near the grid only
\* across the 0/1 boundary.
C5_Witness ==
    /\ Updated /\ last.result # Null /\ NUM_PARTICLES > 0
    /\ last.avgPosition.whole > (9 * PosUnit) \div 10

SquareSum(ps) == SumSeq([i \in 1..Len(ps) |-> ps[i].wnum * ps[i].wnum], Len(ps))

\* The effective sample size 1 / sum(weight^2) is below half the population.
Degenerate == NUM_PARTICLES * SquareSum(particles) > 2 * wden * wden

\* C7: after an update of a validly configured tracker the effective sample
\* size is not below half the population size (a population that fell below
\* was resampled and its weights reset to uniform).
C7_NoDegeneracyAfterUpdate == (Updated /\ ~InvalidConfiguration) => ~Degenerate

\* C8: the number of particles is NUM_PARTICLES after initializeParticles
\* and after every update; a re-run of initializeParticles replaces the
\* population.
C8_PopulationSizeFixed == Len(particles) = NUM_PARTICLES

\* An update on a population seeded by a re-run of initializeParticles.
C8_Witness == reseeded /\ Updated /\ NUM_PARTICLES >= 2

\* C9: initializeParticles leaves every particle with the weight
\* 1/NUM_PARTICLES, the weights summing to 1, a position in [0, 1), a tempo
\* in [60, 200] (and in [TEMPO_MIN, TEMPO_MAX] when that is a range) and a
\* measure slot in 0..3.
C9_InitUniformWeights ==
    (last.op = "initializeParticles" /\ NUM_PARTICLES >= 1) =>
        /\ WeightSum(particles) = wden
        /\ \A i \in 1..Len(particles) :
              /\ particles[i].wnum * NUM_PARTICLES = wden
              /\ 0 <= particles[i].position /\ particles[i].position < PosUnit
              /\ TEMPO_MIN_DEFAULT <= particles[i].tempo
              /\ particles[i].tempo <= TEMPO_MAX_DEFAULT
              /\ TEMPO_MIN <= TEMPO_MAX =>
                    (TEMPO_MIN <= particles[i].tempo /\ particles[i].tempo <= TEMPO_MAX)
              /\ particles[i].phase \in 0..3

\* A population of several particles fresh from a re-run of
\* initializeParticles, in the default configuration.
C9_Witness ==
    /\ last.op = "initializeParticles" /\ reseeded /\ NUM_PARTICLES >= 2
    /\ TEMPO_MIN = TEMPO_MIN_DEFAULT /\ TEMPO_MAX = TEMPO_MAX_DEFAULT

C12_SyntheticBeatCount ==
    hops = totalFrames => (15 <= emitted /\ emitted <= 25)

\* C14: the first analysis frame of a session, compared against the
\* all-zero previous frame, posts no onset message.
C14_FirstFrameNoOnset == analysed = 1 => posted = << >>

\* C15: an iteration of processChunksIfReady that finds too few samples for
\* a frame leaves the read cursor and the buffered-sample count as they were.
C15_NotReadyLeavesBufferUntouched ==
    stalled # << >> =>
        (readIndex = stalled.readIndex /\ sampleCount = stalled.sampleCount)

----------------------------------------------------------------------------
(* FileAudioService.validaFile (src/src/services/FCPXMLExportService.ts).  *)
(* A file name is a sequence of one-character strings.                     *)

\* DEFAULT_CONSTRAINTS.maxSize, in bytes (src/src/types/audio.ts line 138).
MAX_FILE_SIZE == 52428800

\* String.prototype.toLowerCase on the characters that occur.
LowerChar(c) ==
    CASE c = "M" -> "m"
      [] c = "P" -> "p"
      [] c = "W" -> "w"
      [] c = "A" -> "a"
      [] c = "V" -> "v"
      [] OTHER -> c

toLowerCase(name) == [k \in 1..Len(name) |-> LowerChar(name[k])]

\* The positions of the character c in name.
PositionsOf(name, c) == {k \in 1..Len(name) : name[k] = c}

\* nomeFile.split('.').pop(): what follows the last '.', or the whole name
\* when it holds no '.'.
LastSegment(name) ==
    LET dots == PositionsOf(name, ".")
        from == IF dots = {} THEN 1 ELSE (CHOOSE k \in dots : \A j \in dots : j <= k) + 1
    IN  SubSeq(name, from, Len(name))

\* estraiFormatoFile (lines 356-364): the format, or "null".
estraiFormatoFile(nomeFile) ==
    LET estensione == LastSegment(toLowerCase(nomeFile))
    IN  IF estensione = <<"m", "p", "3">> THEN "mp3"
        ELSE IF estensione = <<"w", "a", "v">> THEN "wav"
        ELSE "null"

\* The characters of the class [<>:"\\|?*] (line 371).
caratteriProibiti == {"<", ">", ":", "\"", "\\", "|", "?", "*"}

\* validaNomeFile (lines 369-374).
validaNomeFile(nomeFile) ==
    /\ \A k \in 1..Len(nomeFile) : nomeFile[k] \notin caratteriProibiti
    /\ \E k \in 1..Len(nomeFile) : nomeFile[k] # " "

\* A rejection with one error.
Rejected(code) == [isValid |-> FALSE, code |-> code]

\* validaFile (lines 239-281).
validaFile(file) ==
    IF estraiFormatoFile(file.name) = "null" THEN Rejected("UNSUPPORTED_FORMAT")
    ELSE IF file.size > MAX_FILE_SIZE THEN Rejected("FILE_TOO_LARGE")
    ELSE IF ~validaNomeFile(file.name) THEN Rejected("UNSUPPORTED_FORMAT")
    ELSE [isValid |-> TRUE]

\* The names explored: a stem, a '.' or none, and an ending.
NameStems ==
    {<< >>, <<"a">>, <<" ">>, <<"a", ".", "b">>} \cup {<<"a", c>> : c \in caratteriProibiti}

NameEndings ==
    {<< >>, <<"m", "p", "3">>, <<"M", "P", "3">>, <<"w", "a", "v">>, <<"W", "A", "V">>,
     <<"m", "p", "4">>, <<"t", "x", "t">>}

FileNames == {stem \o dot \o ending :
                 stem \in NameStems, dot \in {<< >>, <<".">>}, ending \in NameEndings}

FileSizes == {0, MAX_FILE_SIZE - 1, MAX_FILE_SIZE, MAX_FILE_SIZE + 1}

\* The file handed to validaFile is drawn.
InitValidaFile ==
    /\ NoStreamSession /\ NoTracker /\ NoReplay /\ NoObject
    /\ \E name \in FileNames, size \in FileSizes :
           call = [op |-> "validaFile", file |-> [name |-> name, size |-> size]]
    /\ ret = Pending

\* fileAudioService.validaFile(file), which has no throw statement.
validaFileCall ==
    /\ ret = Pending
    /\ ret' = validaFile(call.file)
    /\ UNCHANGED <<call, objectVars, streamVars, trackerVars, replayVars>>

SpecValidaFile == InitValidaFile /\ [][validaFileCall]_vars

\* The extension of a file name: what follows its last '.', if it has one.
HasExtension(name, extension) ==
    /\ PositionsOf(name, ".") # {}
    /\ LastSegment(toLowerCase(name)) = extension

\* What validaFile is to return for file.
ExpectedValidation(file) ==
    IF ~(HasExtension(file.name, <<"m", "p", "3">>) \/ HasExtension(file.name, <<"w", "a", "v">>))
    THEN Rejected("UNSUPPORTED_FORMAT")
    ELSE IF file.size > MAX_FILE_SIZE THEN Rejected("FILE_TOO_LARGE")
    ELSE IF \E k \in 1..Len(file.name) : file.name[k] \in caratteriProibiti
    THEN Rejected("UNSUPPORTED_FORMAT")
    ELSE [isValid |-> TRUE]

\* C16: validaFile accepts a file if and only if its extension is mp3 or
\* wav, its size is at most 50 MB and its name holds no forbidden character;
\* otherwise it returns one error, the format being checked first, then the
\* size, then the name.
C16_ValidaFileAcceptsIff ==
    (call.op = "validaFile" /\ ret # Pending) => ret = ExpectedValidation(call.file)

----------------------------------------------------------------------------
(* BeatDetectionService.generateMarkers                                    *)
(* (src/src/services/beatDetectionService.ts).  Beat times are counted in  *)
(* milliseconds and the tempo in tenths of a BPM.  A marker value is kept  *)
(* as its prefix and the text that follows it, which starts with "Beat".   *)

\* Math.round on a non-negative number of tenths.
RoundTenths(x) == (x + 5) \div 10

\* formatMarkerValue giving the green prefix to the odd beat numbers.
formatMarkerValue_OddGreen(beatNumber, isDownbeat, bpm, meter) ==
    [prefix |-> IF isDownbeat THEN "!" ELSE IF beatNumber % 2 = 1 THEN "?" ELSE "",
     text |-> <<"Beat ", beatNumber, " - ", RoundTenths(bpm), " BPM ", meter,
                IF isDownbeat THEN " [Down-beat]" ELSE "">>]

\* formatMarkerValue (lines 145-161).
formatMarkerValue(beatNumber, isDownbeat, bpm, meter) ==
    [prefix |-> IF isDownbeat THEN "!" ELSE IF beatNumber % 2 = 0 THEN "?" ELSE "",
     text |-> <<"Beat ", beatNumber, " - ", RoundTenths(bpm), " BPM ", meter,
                IF isDownbeat THEN " [Down-beat]" ELSE "">>]

\* generateMarkers (lines 111-130); sequences are indexed from 1, the
\* array index of beats[k] being k - 1.
generateMarkers(result) ==
    [k \in 1..Len(result.beats) |->
        LET beatTime == result.beats[k]
            index == k - 1
            isDownbeat == \E d \in 1..Len(result.downbeats) : result.downbeats[d] = beatTime
        IN  [start |-> beatTime,
             value |-> formatMarkerValue(index + 1, isDownbeat, result.bpm, result.meter),
             isDownbeat |-> isDownbeat,
             beatIndex |-> index]]

MaxBeats == 3

\* Beat times, in ms.
BeatTimes == {0, 500, 1000}

\* Sequences of at most n elements of S.
SeqUpTo(S, n) == UNION {[1..k -> S] : k \in 0..n}

\* The analysis results explored: any beats, in any order, with the
\* down-beats among them or not.
BeatResults ==
    [beats : SeqUpTo(BeatTimes, MaxBeats),
     downbeats : {<< >>, <<0>>, <<500>>, <<0, 1000>>, <<1500>>},
     bpm : {1205},
     meter : {"4/4"}]

\* The result handed to generateMarkers is drawn.
InitMarkers ==
    /\ NoStreamSession /\ NoTracker /\ NoReplay /\ NoObject
    /\ \E result \in BeatResults : call = [op |-> "generateMarkers", result |-> result]
    /\ ret = Pending

\* beatDetectionService.generateMarkers(result).
generateMarkersCall ==
    /\ ret = Pending
    /\ ret' = [kind |-> "value", value |-> generateMarkers(call.result)]
    /\ UNCHANGED <<call, objectVars, streamVars, trackerVars, replayVars>>

SpecMarkers == InitMarkers /\ [][generateMarkersCall]_vars

----------------------------------------------------------------------------
(* The marker start times written by the three FCPXML exporters.  A time   *)
(* in seconds is counted in microseconds; an encoded time is the fraction  *)
(* num/den of a second that the exported text denotes.                     *)

MicrosPerSecond == 1000000

\* const FRAME_RATE = 25 (FCPXMLExportService.ts line 96; the same 25 is
\* written out in beatDetectionService.ts lines 380-381).
FRAME_RATE == 25

\* Math.round(x) kept to the frame inside its second, as a timecode does.
RoundRatio_FrameInSecond(num, den) == ((2 * num + den) \div (2 * den)) % FRAME_RATE

\* Math.round(x) for x = num/den >= 0: the nearest integer, halves upwards.
RoundRatio(num, den) == (2 * num + den) \div (2 * den)

\* BeatDetectionService.generateFCPXML, the start attribute of a marker
\* (lines 174-175): Math.round(marker.start * 1000) / 1000, printed as a
\* decimal number of seconds.
generateFCPXML_start(start) ==
    [num |-> RoundRatio(start * 1000, MicrosPerSecond), den |-> 1000]

\* CsvBeatService.secondsToFraction (lines 379-382).
secondsToFraction(seconds) ==
    LET frames == RoundRatio(seconds * 25, MicrosPerSecond)
    IN  [num |-> frames, den |-> 25]

\* FCPXMLExportService.convertiTempoInFrazione (lines 95-100).
convertiTempoInFrazione(secondi) ==
    LET numeratore == RoundRatio(secondi * FRAME_RATE, MicrosPerSecond)
    IN  [num |-> numeratore, den |-> FRAME_RATE]

\* The marker times explored, in microseconds: on and around the
\* millisecond grid, between 0 and 40 ms and beyond.
MarkerTimes == {k * 2500 + d : k \in 0..16, d \in {0, 499, 500}}

Exporters == {"generateFCPXML", "secondsToFraction", "convertiTempoInFrazione"}

\* The marker time handed to an exporter is drawn.
InitExport ==
    /\ NoStreamSession /\ NoTracker /\ NoReplay /\ NoObject
    /\ \E op \in Exporters, t \in MarkerTimes : call = [op |-> op, start |-> t]
    /\ ret = Pending

\* beatDetectionService.generateFCPXML(markers, ...), for one marker.
generateFCPXMLCall ==
    /\ call.op = "generateFCPXML" /\ ret = Pending
    /\ ret' = [kind |-> "value", value |-> generateFCPXML_start(call.start)]
    /\ UNCHANGED <<call, objectVars, streamVars, trackerVars, replayVars>>

\* csvBeatService.generateFCPXML(markers, ...), for one marker (line 353).
secondsToFractionCall ==
    /\ call.op = "secondsToFraction" /\ ret = Pending
    /\ ret' = [kind |-> "value", value |-> secondsToFraction(call.start)]
    /\ UNCHANGED <<call, objectVars, streamVars, trackerVars, replayVars>>

\* fcpxmlExportService.convertiMarkersInFCPXML(markers), for one marker
\* (line 47).
convertiTempoInFrazioneCall ==
    /\ call.op = "convertiTempoInFrazione" /\ ret = Pending
    /\ ret' = [kind |-> "value", value |-> convertiTempoInFrazione(call.start)]
    /\ UNCHANGED <<call, objectVars, streamVars, trackerVars, replayVars>>

NextExport ==
    \/ generateFCPXMLCall
    \/ secondsToFractionCall
    \/ convertiTempoInFrazioneCall

SpecExport == InitExport /\ [][NextExport]_vars

\* The time a fraction of a second denotes, in microseconds.
DecodedMicros(fraction) == (fraction.num * MicrosPerSecond) \div fraction.den

\* C18: the start time each exporter encodes differs from the marker time by
\* at most 0.5 ms.
C18_ExportedTimeWithinHalfMs ==
    (call.op \in Exporters /\ ret # Pending) =>
        Abs(DecodedMicros(ret.value) - call.start) <= 500

----------------------------------------------------------------------------
(* CsvBeatService.parseSonicVisualiserCSV                                  *)
(* (src/src/services/beatDetectionService.ts).  A text is a sequence of    *)
(* lines; a line is the sequence of its fields, which the commas separate; *)
(* a field is [lead, body]: lead tells whether a blank precedes the body.  *)
(* Timestamps are counted in tenths of a second.                           *)

\* What parseFloat and parseInt return for a text that is no number; the
\* numbers of the fields explored are all non-negative.
NaN == -1

isNaN(x) == x = NaN

\* String.prototype.trim on a field.
TrimField(field) == [field EXCEPT !.lead = FALSE]

\* The field is empty once trimmed.
IsBlankField(field) == field.body = ""

\* parseFloat on a trimmed field, in tenths.
parseFloat(field) ==
    CASE field.body = "1.5" -> 15
      [] field.body = "0.5" -> 5
      [] field.body = "2" -> 20
      [] OTHER -> NaN

\* parseInt on a trimmed field with its double quotes removed.
parseInt(field) ==
    CASE field.body = "2" -> 2
      [] field.body = "\"2\"" -> 2
      [] field.body = "1.5" -> 1
      [] field.body = "0.5" -> 0
      [] OTHER -> NaN

\* csvContent.trim().split('\n') (line 253): the blank that opens the text
\* is removed; a text without lines yields one empty line.
SplitLines(text) ==
    IF text = << >> THEN << << [lead |-> FALSE, body |-> ""] >> >>
    ELSE [k \in 1..Len(text) |->
             IF k = 1 THEN <<TrimField(text[1][1])>> \o Tail(text[1]) ELSE text[k]]

\* !line.trim() || line.startsWith('#') (line 258).
IsSkipped(line) ==
    \/ Len(line) = 1 /\ IsBlankField(line[1])
    \/ ~line[1].lead /\ line[1].body = "#c"

RECURSIVE InsertSorted(_, _)
\* markers, sorted, with marker placed after the markers that are not later.
InsertSorted(markers, marker) ==
    IF markers = << >> THEN <<marker>>
    ELSE IF markers[Len(markers)].timestamp <= marker.timestamp THEN Append(markers, marker)
    ELSE Append(InsertSorted(SubSeq(markers, 1, Len(markers) - 1), marker),
                markers[Len(markers)])

RECURSIVE SortByTimestamp(_)
\* markers.sort((a, b) => a.timestamp - b.timestamp) (line 275), a stable sort.
SortByTimestamp(markers) ==
    IF markers = << >> THEN << >>
    ELSE InsertSorted(SortByTimestamp(SubSeq(markers, 1, Len(markers) - 1)),
                      markers[Len(markers)])

RECURSIVE ParseLines(_, _, _)
\* The loop of lines 256-272 from line k on, markers being those pushed so
\* far: the markers pushed, or the TypeError of beatNumberStr.trim() when
\* the line has a single field and beatNumberStr is undefined.
ParseLines(lines, k, markers) ==
    IF k > Len(lines) THEN [kind |-> "value", value |-> markers]
    ELSE LET line == lines[k]
         IN  IF IsSkipped(line) THEN ParseLines(lines, k + 1, markers)
             ELSE IF Len(line) < 2 THEN [kind |-> "throw", error |-> "TypeError"]
             ELSE LET timestamp == parseFloat(TrimField(line[1]))
                      beatNumber == parseInt(TrimField(line[2]))
                  IN  IF ~isNaN(timestamp) /\ ~isNaN(beatNumber)
                      THEN ParseLines(lines, k + 1,
                               Append(markers, [timestamp |-> timestamp,
                                                beatNumber |-> beatNumber]))
                      ELSE ParseLines(lines, k + 1, markers)

\* parseSonicVisualiserCSV (lines 252-285).
parseSonicVisualiserCSV(csvContent) ==
    LET parsed == ParseLines(SplitLines(csvContent), 1, << >>)
    IN  IF parsed.kind = "throw" THEN parsed
        ELSE [kind |-> "value", value |-> SortByTimestamp(parsed.value)]

MaxLines == 2

Field(lead, body) == [lead |-> lead, body |-> body]

\* Lines of one field: blank, a comment, a comment after a blank, a number
\* or a word without any comma.
SingleFieldLines ==
    {<<Field(l, b)>> : l \in BOOLEAN, b \in {"", "#c"}}
    \cup {<<Field(FALSE, "1.5")>>, <<Field(FALSE, "x")>>}

\* Lines of two fields and one of three.
PairLines ==
    {<<Field(FALSE, t), Field(l, n)>> :
        t \in {"1.5", "0.5", "x"}, l \in BOOLEAN, n \in {"2", "\"2\"", "x", ""}}
    \cup {<<Field(TRUE, "2"), Field(FALSE, "1.5"), Field(FALSE, "x")>>}

CsvLines == SingleFieldLines \cup PairLines

CsvTexts == UNION {[1..k -> CsvLines] : k \in 0..MaxLines}

\* The text handed to parseSonicVisualiserCSV is drawn.
InitCsv ==
    /\ NoStreamSession /\ NoTracker /\ NoReplay /\ NoObject
    /\ \E text \in CsvTexts : call = [op |-> "parseSonicVisualiserCSV", csvContent |-> text]
    /\ ret = Pending

\* await csvBeatService.parseSonicVisualiserCSV(csvContent): the markers, or
\* the error the promise is rejected with.
parseSonicVisualiserCSVCall ==
    /\ call.op = "parseSonicVisualiserCSV" /\ ret = Pending
    /\ ret' = parseSonicVisualiserCSV(call.csvContent)
    /\ UNCHANGED <<call, objectVars, streamVars, trackerVars, replayVars>>

SpecCsv == InitCsv /\ [][parseSonicVisualiserCSVCall]_vars

\* A line that is a valid 'timestamp,beat_number' pair.
IsValidPair(line) ==
    /\ ~IsSkipped(line) /\ Len(line) >= 2
    /\ ~isNaN(parseFloat(TrimField(line[1]))) /\ ~isNaN(parseInt(TrimField(line[2])))

\* C19: parseSonicVisualiserCSV throws on no text; it returns one marker per
\* valid line, sorted by ascending timestamp, every other line being
\* skipped.
C19_CsvParseNeverThrows ==
    (call.op = "parseSonicVisualiserCSV" /\ ret # Pending) =>
        /\ ret.kind = "value"
        /\ LET lines == SplitLines(call.csvContent)
           IN  Len(ret.value) = Cardinality({k \in 1..Len(lines) : IsValidPair(lines[k])})
        /\ \A i, j \in 1..Len(ret.value) :
              i < j => ret.value[i].timestamp <= ret.value[j].timestamp

----------------------------------------------------------------------------
(* SimpleBeatTest: the predict step.                                       *)

\* timeDelta / beatInterval (lines 262-264): what one hop adds to the
\* position of a particle of the given tempo.
Advance(tempo) == (HOP_SIZE_MS * tempo * PosUnit) \div 60000

\* The particle wrapped past 1.0 on the last hop: it lies closer to 0 than
\* one hop reaches.
JustWrapped(particle) == particle.position < Advance(particle.tempo)

\* C20: every updateParticleFilter call on particles with tempi in
\* [60, 200] leaves each particle's tempo unchanged, its position in [0, 1)
\* and its measure slot in 0..3; the slot advances by 1 modulo 4 on the hops
\* where the position wraps past 1.0 and is unchanged on the others.
C20_PredictKeepsParticlesInRange ==
    [][(last'.op = "updateParticleFilter" /\ hops' = hops + 1) =>
          /\ Len(particles') = Len(particles)
          /\ \A i \in 1..Len(particles) :
                LET before == particles[i]
                    after == particles'[i]
                    wraps == before.position + Advance(before.tempo) >= PosUnit
                IN  (TEMPO_MIN_DEFAULT <= before.tempo /\ before.tempo <= TEMPO_MAX_DEFAULT) =>
                        /\ after.tempo = before.tempo
                        /\ 0 <= after.position /\ after.position < PosUnit
                        /\ after.phase \in 0..3
                        /\ after.phase = IF wraps THEN (before.phase + 1) % 4
                                         ELSE before.phase
                        /\ wraps <=> after.position < before.position]_vars

\* After a hop, a particle that wrapped from the measure slot 3 into the
\* slot 0 next to a particle that did not wrap.
C20_Witness ==
    /\ Updated
    /\ \E i, j \in 1..Len(particles) :
          /\ JustWrapped(particles[i]) /\ particles[i].phase = 0
          /\ ~JustWrapped(particles[j])

----------------------------------------------------------------------------
(* AudioStreamProcessor: progress.                                         *)

\* C21: when process() keeps being called with blocks of one size below the
\* analysis frame, a frame is eventually extracted and analysed.
C21_EventuallyFrameAnalysed == <>(analysed >= 1)

----------------------------------------------------------------------------
(* AudioStreamProcessor: two calls of calculateOnsetProbability in a row,  *)
(* the first one leaving its frame in this.lastOnsetFrame.                 *)

\* The frame line 180 leaves in this.lastOnsetFrame, with the previous frame
\* kept instead.
StoredFrame_Stale(frame, prev) == prev

\* this.lastOnsetFrame.set(frame) (line 180).
StoredFrame(frame, prev) == frame

\* The frames of the second call: constant on each half.
SecondShapes == [1..2 -> Levels]

\* A previous frame is in this.lastOnsetFrame and the first frame is drawn;
\* nothing else of a worklet session is followed.
InitOnsetTwice ==
    /\ NoTracker /\ NoReplay /\ NoObject
    /\ ringBuffer = << >> /\ writeIndex = 0 /\ readIndex = 0 /\ sampleCount = 0
    /\ posted = << >> /\ postedAt = << >>
    /\ pc = "idle" /\ callbacks = 0 /\ received = 0 /\ lastProb = -1
    /\ analysed = 0 /\ stalled = << >> /\ quantum = 0
    /\ \E f \in FrameShapes, q \in PreviousShapes :
           /\ call = [op |-> "calculateOnsetProbability", frame |-> f, prev |-> q]
           /\ lastOnsetFrame = FrameOf(q)
    /\ ret = Pending

\* The first call (lines 127-191): the value returned and the frame stored.
onsetFirst ==
    /\ ret = Pending
    /\ ret' = [kind |-> "value", nth |-> 1, earlier |-> -1,
               value |-> calculateOnsetProbability(FrameOf(call.frame), lastOnsetFrame)]
    /\ lastOnsetFrame' = StoredFrame(FrameOf(call.frame), lastOnsetFrame)
    /\ analysed' = analysed + 1
    /\ UNCHANGED <<call, objectVars, ringBuffer, writeIndex, readIndex, sampleCount, posted, postedAt,
                   pc, callbacks, received, lastProb, stalled, quantum,
                   trackerVars, replayVars>>

\* The next call: with the same frame again, or with another frame.
\* call.prev is the frame of the call before.
onsetAgain ==
    /\ ret.kind = "value" /\ ret.nth = 1
    /\ \E g \in SecondShapes \cup {call.frame} :
          /\ call' = [op |-> "calculateOnsetProbability", frame |-> g, prev |-> call.frame]
          /\ ret' = [kind |-> "value", nth |-> 2, earlier |-> ret.value,
                     value |-> calculateOnsetProbability(FrameOf(g), lastOnsetFrame)]
          /\ lastOnsetFrame' = StoredFrame(FrameOf(g), lastOnsetFrame)
    /\ analysed' = analysed + 1
    /\ UNCHANGED <<ringBuffer, writeIndex, readIndex, sampleCount, posted, postedAt,
                   pc, callbacks, received, lastProb, stalled, quantum,
                   trackerVars, replayVars, objectVars>>

NextOnsetTwice == onsetFirst \/ onsetAgain

SpecOnsetTwice == InitOnsetTwice /\ [][NextOnsetTwice]_vars

\* No bin of the frame has a larger RMS magnitude than the same bin of the
\* previous frame.
NoBinLouder(frame, prev) ==
    LET bins == FloorDiv(frameSizeForOnset, 2)
    IN  \A bin \in 0..(bins - 1) :
           BinMagnitude(frame, frameSizeForOnset, bins, bin)
               <= BinMagnitude(prev, frameSizeForOnset, bins, bin)

\* C22: calculateOnsetProbability returns 0 when it is handed the frame of
\* the call before, and whenever no bin of the frame has a larger RMS
\* magnitude than the same bin of the frame of the call before.
C22_OnlyEnergyIncreasesCount ==
    (call.op = "calculateOnsetProbability" /\ ret # Pending) =>
        /\ (FrameOf(call.frame) = FrameOf(call.prev)) => ret.value = 0
        /\ NoBinLouder(FrameOf(call.frame), FrameOf(call.prev)) => ret.value = 0

\* A frame that scored an onset on the first call is handed in again and
\* scores nothing.
C22_Witness ==
    /\ call.op = "calculateOnsetProbability" /\ ret # Pending
    /\ ret.nth = 2 /\ ret.earlier > 0
    /\ call.frame = call.prev
    /\ ret.value = 0

----------------------------------------------------------------------------
(* The FCPXML exporters on a list of markers: the start values written,    *)
(* in the order of the markers.                                            *)

\* FCPXMLExportService.convertiMarkersInFCPXML (lines 45-51): the start of
\* each marker.
convertiMarkersInFCPXML(markers) ==
    [i \in 1..Len(markers) |-> convertiTempoInFrazione(markers[i])]

\* CsvBeatService.generateFCPXML (lines 352-355): the start of each marker.
csvGenerateFCPXML(markers) ==
    [i \in 1..Len(markers) |-> secondsToFraction(markers[i])]

\* The marker times, in microseconds: on and either side of the instants
\* where 25 t is half an integer, near 0 and near one second.
OrderedTimes ==
    {k * 20000 + d : k \in {0, 1, 2, 3, 48, 49, 50, 51}, d \in {0, 1, 19999}}

ListExporters == {"convertiMarkersInFCPXML", "csvGenerateFCPXML"}

\* Two markers in non-decreasing order of time are handed to an exporter.
InitExportOrder ==
    /\ NoStreamSession /\ NoTracker /\ NoReplay /\ NoObject
    /\ \E op \in ListExporters, t1 \in OrderedTimes, t2 \in OrderedTimes :
          /\ t1 <= t2
          /\ call = [op |-> op, markers |-> <<t1, t2>>]
    /\ ret = Pending

\* fcpxmlExportService.convertiMarkersInFCPXML(markers).
convertiMarkersInFCPXMLCall ==
    /\ call.op = "convertiMarkersInFCPXML" /\ ret = Pending
    /\ ret' = [kind |-> "value", value |-> convertiMarkersInFCPXML(call.markers)]
    /\ UNCHANGED <<call, objectVars, streamVars, trackerVars, replayVars>>

\* csvBeatService.generateFCPXML(markers, audioFileName, duration).
csvGenerateFCPXMLCall ==
    /\ call.op = "csvGenerateFCPXML" /\ ret = Pending
    /\ ret' = [kind |-> "value", value |-> csvGenerateFCPXML(call.markers)]
    /\ UNCHANGED <<call, objectVars, streamVars, trackerVars, replayVars>>

NextExportOrder ==
    \/ convertiMarkersInFCPXMLCall
    \/ csvGenerateFCPXMLCall

SpecExportOrder == InitExportOrder /\ [][NextExportOrder]_vars

\* C23: markers in non-decreasing order of time are written with
\* non-decreasing start numerators, each a non-negative integer over 25.
C23_ExportPreservesOrder ==
    (call.op \in ListExporters /\ ret # Pending) =>
        /\ Len(ret.value) = Len(call.markers)
        /\ \A i \in 1..Len(ret.value) :
              /\ ret.value[i].num \in Nat
              /\ ret.value[i].den = 25
        /\ \A i, j \in 1..Len(ret.value) :
              (i < j) => ret.value[i].num <= ret.value[j].num

\* Two markers beyond one second, the first one frame before the second.
C23_Witness ==
    /\ call.op \in ListExporters /\ ret # Pending
    /\ call.markers[1] >= MicrosPerSecond
    /\ call.markers[1] < call.markers[2]
    /\ ret.value[1].num < ret.value[2].num

----------------------------------------------------------------------------
(* BeatDetectionService (src/src/services/beatDetectionService.ts): the    *)
(* life cycle of the service object.  A log entry is a call with its       *)
(* outcome and the fields of the object before and after it.               *)

MaxCalls == 4

\* private essentia: Essentia | null = null (line 27).
NoEssentia == "null"

\* The message of the error thrown at line 52.
NotInitialized == "Servizio non inizializzato. Chiamare initialize() prima."

\* The message of the error thrown at line 44.
CannotInitialize ==
    "Impossibile inizializzare il motore di beat detection. Verificare la connessione internet."

\* The fields of a new BeatDetectionService (lines 27-28).
NewBeatDetectionService == [essentia |-> NoEssentia, isInitialized |-> FALSE]

\* The fields after initialize() (lines 33-46); constructed tells whether
\* new Essentia(EssentiaWASM) returned or threw.
AfterInitialize(s, constructed) ==
    IF s.isInitialized THEN s
    ELSE IF constructed THEN [essentia |-> "Essentia", isInitialized |-> TRUE]
    ELSE s

\* What initialize() does for its caller.
initializeOutcome(s, constructed) ==
    IF s.isInitialized \/ constructed THEN "returned" ELSE CannotInitialize

\* dispose() that clears the instance and leaves the flag.
AfterDispose_KeepsFlag(s) ==
    IF s.essentia # NoEssentia THEN [s EXCEPT !.essentia = NoEssentia] ELSE s

\* The fields after dispose() (lines 209-216).
AfterDispose(s) ==
    IF s.essentia # NoEssentia
    THEN [essentia |-> NoEssentia, isInitialized |-> FALSE]
    ELSE s

\* The durations of the audio buffers handed to extractBeats, in seconds.
Durations == {0, 1}

\* The beats extractBeats generates (lines 67-74), in milliseconds: one
\* every 60 / 120 s from 0 while below the duration.
GeneratedBeats(duration) == [i \in 1..(2 * duration) |-> (i - 1) * 500]

\* What extractBeats(audioBuffer) does for its caller (lines 50-101).
extractBeatsOutcome(s, duration) ==
    IF s.essentia = NoEssentia THEN NotInitialized ELSE "returned"

InitLifecycle ==
    /\ NoStreamSession /\ NoTracker /\ NoReplay /\ NoService
    /\ self = NewBeatDetectionService
    /\ log = << >>

\* await beatDetectionService.initialize().
initialize ==
    /\ Len(log) < MaxCalls
    /\ \E constructed \in BOOLEAN :
          /\ self' = AfterInitialize(self, constructed)
          /\ log' = Append(log, [op |-> "initialize",
                                 outcome |-> initializeOutcome(self, constructed),
                                 before |-> self, after |-> self'])
    /\ UNCHANGED <<streamVars, trackerVars, replayVars, serviceVars>>

\* await beatDetectionService.extractBeats(audioBuffer).
extractBeats ==
    /\ Len(log) < MaxCalls
    /\ \E duration \in Durations :
          log' = Append(log, [op |-> "extractBeats",
                              outcome |-> extractBeatsOutcome(self, duration),
                              before |-> self, after |-> self,
                              beats |-> IF self.essentia = NoEssentia THEN << >>
                                        ELSE GeneratedBeats(duration)])
    /\ UNCHANGED <<self, streamVars, trackerVars, replayVars, serviceVars>>

\* beatDetectionService.dispose().
dispose ==
    /\ Len(log) < MaxCalls
    /\ self' = AfterDispose(self)
    /\ log' = Append(log, [op |-> "dispose", outcome |-> "returned",
                           before |-> self, after |-> self'])
    /\ UNCHANGED <<streamVars, trackerVars, replayVars, serviceVars>>

NextLifecycle == initialize \/ extractBeats \/ dispose

SpecLifecycle == InitLifecycle /\ [][NextLifecycle]_vars

\* Among the first n calls, an initialize() has returned and no dispose()
\* came after it.
InitializedAfter(n) ==
    \E i \in 1..n :
        /\ log[i].op = "initialize" /\ log[i].outcome = "returned"
        /\ \A j \in (i + 1)..n : log[j].op # "dispose"

\* C24: extractBeats throws 'Servizio non inizializzato' exactly when no
\* initialize() has succeeded since construction or the last dispose();
\* initialize() on an initialized service changes nothing; dispose() leaves
\* the service uninitialized; and isInitialized is TRUE exactly when the
\* essentia instance is not null.
C24_ServiceLifecycle ==
    /\ self.isInitialized <=> (self.essentia # NoEssentia)
    /\ \A i \in 1..Len(log) :
          /\ (log[i].op = "extractBeats") =>
                ((log[i].outcome = NotInitialized) <=> ~InitializedAfter(i - 1))
          /\ (log[i].op = "initialize" /\ log[i].before.isInitialized) =>
                (log[i].after = log[i].before /\ log[i].outcome = "returned")
          /\ (log[i].op = "initialize" /\ log[i].outcome = "returned") =>
                log[i].after.isInitialized
          /\ (log[i].op = "dispose") => log[i].after = NewBeatDetectionService

\* The service is initialized, disposed of, refuses extractBeats, and is
\* initialized again.
C24_Witness ==
    /\ Len(log) = 4
    /\ log[1].op = "initialize" /\ log[1].outcome = "returned"
    /\ log[2].op = "dispose"
    /\ log[3].op = "extractBeats" /\ log[3].outcome = NotInitialized
    /\ log[4].op = "initialize" /\ log[4].outcome = "returned"
    /\ self.isInitialized

----------------------------------------------------------------------------
(* CsvBeatService.convertToDetectionResult                                 *)
(* (src/src/services/beatDetectionService.ts).  A timestamp is counted in  *)
(* milliseconds; a bpm is NaN, an infinity or a finite number of tenths.   *)

\* The message of the error thrown at line 292.
NoMarkers == "Nessun marker beat trovato nel file CSV"

\* beats.slice(1).map((beat, i) => beat - beats[i]) (line 299).
Intervals(beats) ==
    [i \in 1..(Len(beats) - 1) |-> beats[i + 1] - beats[i]]

\* Math.round((60 / (sum / count)) * 10) / 10 with the sum in milliseconds
\* (lines 300-301 and 308): 0 / 0 is NaN, and 60 / 0 is Infinity.
RoundedBpm(sum, count) ==
    IF count = 0 THEN [kind |-> "NaN"]
    ELSE IF sum = 0 THEN [kind |-> "Infinity"]
    ELSE IF sum > 0 THEN [kind |-> "finite", tenths |-> RoundRatio(600000 * count, sum)]
    ELSE [kind |-> "finite", tenths |-> RoundRatio(-600000 * count, -sum)]

\* convertToDetectionResult(markers) (lines 290-313).
convertToDetectionResult(markers) ==
    IF Len(markers) = 0 THEN [kind |-> "threw", message |-> NoMarkers]
    ELSE LET beats == [i \in 1..Len(markers) |-> markers[i].timestamp]
             downbeats == beats
             intervals == Intervals(beats)
         IN  [kind |-> "value",
              value |-> [beats |-> beats,
                         downbeats |-> downbeats,
                         bpm |-> RoundedBpm(SumSeq(intervals, Len(intervals)), Len(intervals)),
                         meter |-> "4/4",
                         confidence |-> 1,
                         beatIntervals |-> intervals]]

\* Timestamps of the markers, in ms.
MarkerStamps == {0, 500, 1000, 1500}

\* The marker lists explored: at most MaxBeats markers, numbered from 1.
MarkerLists ==
    {[i \in 1..Len(stamps) |-> [timestamp |-> stamps[i], beatNumber |-> i]] :
        stamps \in SeqUpTo(MarkerStamps, MaxBeats)}

\* The marker list handed to convertToDetectionResult is drawn.
InitConvert ==
    /\ NoStreamSession /\ NoTracker /\ NoReplay /\ NoObject
    /\ \E markers \in MarkerLists :
           call = [op |-> "convertToDetectionResult", markers |-> markers]
    /\ ret = Pending

\* csvBeatService.convertToDetectionResult(markers).
convertToDetectionResultCall ==
    /\ call.op = "convertToDetectionResult" /\ ret = Pending
    /\ ret' = convertToDetectionResult(call.markers)
    /\ UNCHANGED <<call, objectVars, streamVars, trackerVars, replayVars>>

SpecConvert == InitConvert /\ [][convertToDetectionResultCall]_vars

\* C25: convertToDetectionResult throws on an empty marker list; on every
\* other list it returns a finite positive bpm, one interval fewer than
\* beats and the beats as down-beats.
C25_ConvertReturnsFinitePositiveBpm ==
    (call.op = "convertToDetectionResult" /\ ret # Pending) =>
        IF Len(call.markers) = 0 THEN ret.kind = "threw"
        ELSE /\ ret.kind = "value"
             /\ ret.value.bpm.kind = "finite" /\ ret.value.bpm.tenths > 0
             /\ Len(ret.value.beatIntervals) = Len(ret.value.beats) - 1
             /\ ret.value.downbeats = ret.value.beats

----------------------------------------------------------------------------
(* DockerAnalyzerService.runSonicAnnotator                                 *)
(* (src/src/services/dockerAnalyzer.ts) with the listeners that the        *)
(* preload script keeps on the 'docker:progress' channel                   *)
(* (src/electron/preload.ts) and the progress events of the main process   *)
(* (src/unnamed/part_000).  A function is known by its identity: the       *)
(* progressListener of the n-th analysis, or the arrow function that       *)
(* onProgress wraps around it.  The log holds the invocations of the       *)
(* onProgress callbacks: whose callback, and during which analysis.        *)

MaxAnalyses == 3

MaxProgressEvents == 2

\* const progressListener = (progress) => { onProgress?.(progress) }
\* (lines 131-133) of the n-th analysis.
progressListener(n) == [kind |-> "progressListener", analysis |-> n]

\* electronAPI.docker.onProgress(callback) (preload.ts lines 39-41): the
\* function attached is a new arrow function that calls the callback.
onProgress(listeners, callback) ==
    Append(listeners, [kind |-> "wrapper", calls |-> callback])

\* The positions of the listeners that are the function fn itself.
PositionsOfListener(listeners, fn) ==
    {i \in 1..Len(listeners) : listeners[i] = fn}

\* ipcRenderer.removeListener(channel, fn): the most recently attached
\* instance of fn is detached, and nothing is when fn is not attached.
removeListener(listeners, fn) ==
    LET at == PositionsOfListener(listeners, fn)
    IN  IF at = {} THEN listeners
        ELSE LET last_ == CHOOSE i \in at : \A j \in at : j <= i
             IN  [k \in 1..(Len(listeners) - 1) |->
                     IF k < last_ THEN listeners[k] ELSE listeners[k + 1]]

\* electronAPI.docker.removeProgressListener(callback) (preload.ts lines
\* 42-44).
removeProgressListener(listeners, callback) == removeListener(listeners, callback)

\* The callback a listener ends up calling.
CallbackOf(listener) ==
    IF listener.kind = "wrapper" THEN listener.calls ELSE listener

\* The invocations one 'docker:progress' event causes while the analysis
\* running is in flight: every attached listener runs, in order.
Deliveries(listeners, running) ==
    [i \in 1..Len(listeners) |->
        [op |-> "onProgress", to |-> CallbackOf(listeners[i]).analysis, during |-> running]]

\* The renderer has made no analysis yet.
InitDocker ==
    /\ NoStreamSession /\ NoTracker /\ NoReplay /\ NoService
    /\ self = [listeners |-> << >>, running |-> 0, analyses |-> 0, sent |-> 0]
    /\ log = << >>

\* runSonicAnnotator(audioFile, onProgress) up to the await of line 141: the
\* prerequisites hold and the listener is registered (lines 98-136).
runSonicAnnotatorStart ==
    /\ self.running = 0 /\ self.analyses < MaxAnalyses
    /\ LET n == self.analyses + 1
       IN  /\ self' = [listeners |-> onProgress(self.listeners, progressListener(n)),
                       running |-> n, analyses |-> n, sent |-> 0]
           /\ log' = Append(log, [op |-> "onProgress", to |-> n, during |-> n])
    /\ UNCHANGED <<streamVars, trackerVars, replayVars, serviceVars>>

\* runSonicAnnotator when a prerequisite fails (lines 100-128): the catch
\* of lines 162-177 reports the error; no listener was registered.
runSonicAnnotatorRefused ==
    /\ self.running = 0 /\ self.analyses < MaxAnalyses
    /\ LET n == self.analyses + 1
       IN  /\ self' = [self EXCEPT !.analyses = n]
           /\ log' = Append(log, [op |-> "onProgress", to |-> n, during |-> n])
    /\ UNCHANGED <<streamVars, trackerVars, replayVars, serviceVars>>

\* mainWindow.webContents.send('docker:progress', ...) while sonic-annotator
\* runs (part_000 lines 254-268).
progressEvent ==
    /\ self.running # 0 /\ self.sent < MaxProgressEvents
    /\ self' = [self EXCEPT !.sent = self.sent + 1]
    /\ log' = log \o Deliveries(self.listeners, self.running)
    /\ UNCHANGED <<streamVars, trackerVars, replayVars, serviceVars>>

\* The invoke of line 141 settles, with success or not, and the finally of
\* lines 158-161 runs.
runSonicAnnotatorFinish ==
    /\ self.running # 0
    /\ \E success \in BOOLEAN :
          log' = Append(log, [op |-> "onProgress", to |-> self.running,
                              during |-> self.running,
                              phase |-> IF success THEN "complete" ELSE "error"])
    /\ self' = [self EXCEPT
                  !.listeners = removeProgressListener(self.listeners,
                                                       progressListener(self.running)),
                  !.running = 0]
    /\ UNCHANGED <<streamVars, trackerVars, replayVars, serviceVars>>

NextDocker ==
    \/ runSonicAnnotatorStart
    \/ runSonicAnnotatorRefused
    \/ progressEvent
    \/ runSonicAnnotatorFinish

SpecDocker == InitDocker /\ [][NextDocker]_vars

\* C26: no progress listener stays attached once runSonicAnnotator has
\* finished, at most one is attached at any time, and no onProgress
\* callback is invoked during another analysis than its own.
C26_ProgressListenerDetached ==
    /\ (self.running = 0) => self.listeners = << >>
    /\ Len(self.listeners) <= 1
    /\ \A i \in 1..Len(log) : log[i].to = log[i].during

----------------------------------------------------------------------------
(* ExportManager.handleExport (src/unnamed/part_005).  The component is    *)
(* followed from one await to the next: pc names the promise handleExport  *)
(* is waiting for.  attempts lists the saves and downloads tried by the    *)
(* export in flight, each with its outcome; the log holds one entry for    *)
(* each handleExport that has ended.                                       *)

MaxExports == 2

\* useState<string | null>(null) (line 51) and originalFilePath: string | null.
NoPath == "null"

\* The props and the platform explored: with or without window.electronAPI,
\* with or without the path of the audio file.
OriginalFilePaths == {NoPath, "/music/song.wav"}

\* What saveFcpxmlToAudioDir resolves with (part_000 lines 410-423).
SavedInAudioDir == "/music/song.fcpxml"

\* What dialog.saveFile resolves with (part_000 lines 354-364).
DialogResults ==
    {[canceled |-> TRUE, filePath |-> NoPath],
     [canceled |-> FALSE, filePath |-> "/chosen/song.fcpxml"],
     [canceled |-> FALSE, filePath |-> NoPath]}

\* The test of line 144 left out: the file is saved whatever the dialog
\* returned.
DialogSaves_Always(result) == TRUE

\* if (!result.canceled && result.filePath) (line 144).
DialogSaves(result) == ~result.canceled /\ result.filePath # NoPath

\* The state of the component that handleExport reads and sets.
ExportFields(s) ==
    [isExporting |-> s.isExporting, exportComplete |-> s.exportComplete,
     savedFilePath |-> s.savedFilePath]

\* The first render (lines 47-51).
InitExportManager ==
    /\ NoStreamSession /\ NoTracker /\ NoReplay /\ NoService
    /\ \E api \in BOOLEAN, path \in OriginalFilePaths :
          self = [electronAPI |-> api, originalFilePath |-> path,
                  isExporting |-> FALSE, exportComplete |-> FALSE,
                  savedFilePath |-> NoPath,
                  pc |-> "idle", attempts |-> << >>, before |-> << >>, exports |-> 0]
    /\ log = << >>

\* handleExport up to the await of line 92.
handleExport ==
    /\ self.pc = "idle" /\ self.exports < MaxExports
    /\ self' = [self EXCEPT !.isExporting = TRUE, !.pc = "timer",
                            !.attempts = << >>, !.before = ExportFields(self),
                            !.exports = self.exports + 1]
    /\ UNCHANGED <<log, streamVars, trackerVars, replayVars, serviceVars>>

\* The timer of line 92 fires: the branch of lines 102-123 up to its await.
exportBranch ==
    /\ self.pc = "timer"
    /\ self' = [self EXCEPT !.pc =
                  IF self.electronAPI /\ self.originalFilePath # NoPath
                  THEN "saveFcpxmlToAudioDir"
                  ELSE IF self.electronAPI THEN "dialog" ELSE "download"]
    /\ UNCHANGED <<log, streamVars, trackerVars, replayVars, serviceVars>>

\* handleExport ends (the finally of lines 127-129) after the last attempt.
ExportEnds(s, attempt) ==
    LET ended == [s EXCEPT !.isExporting = FALSE, !.pc = "idle",
                           !.attempts = Append(s.attempts, attempt)]
    IN  /\ self' = ended
        /\ log' = Append(log, [op |-> "handleExport", attempts |-> ended.attempts,
                               before |-> s.before, after |-> ExportFields(ended)])

\* handleExport goes on to the next await after an attempt.
ExportGoesOn(s, attempt, next) ==
    /\ self' = [s EXCEPT !.pc = next, !.attempts = Append(s.attempts, attempt)]
    /\ log' = log

\* saveFcpxmlToAudioDir settles (lines 103-118).
saveFcpxmlToAudioDirSettles ==
    /\ self.pc = "saveFcpxmlToAudioDir"
    /\ \/ ExportEnds([self EXCEPT !.exportComplete = TRUE,
                                  !.savedFilePath = SavedInAudioDir],
                     [by |-> "saveFcpxmlToAudioDir", outcome |-> "saved"])
       \/ ExportGoesOn(self, [by |-> "saveFcpxmlToAudioDir", outcome |-> "threw"], "dialog")
    /\ UNCHANGED <<streamVars, trackerVars, replayVars, serviceVars>>

\* fallbackElectronDialog: dialog.saveFile settles (lines 137-145, 152-156).
fallbackElectronDialog ==
    /\ self.pc = "dialog"
    /\ \/ \E result \in DialogResults :
             LET attempt == [by |-> "dialog",
                             outcome |-> IF result.canceled THEN "canceled" ELSE "answered",
                             filePath |-> result.filePath]
             IN  IF DialogSaves(result)
                 THEN ExportGoesOn(self, attempt, "saveFcpxml")
                 ELSE ExportEnds(self, attempt)
       \/ ExportGoesOn(self, [by |-> "dialog", outcome |-> "threw"], "download")
    /\ UNCHANGED <<streamVars, trackerVars, replayVars, serviceVars>>

\* fallbackElectronDialog: saveFcpxml settles (lines 146-156).
saveFcpxmlSettles ==
    /\ self.pc = "saveFcpxml"
    /\ \/ ExportEnds([self EXCEPT !.exportComplete = TRUE,
                                  !.savedFilePath = self.attempts[Len(self.attempts)].filePath],
                     [by |-> "saveFcpxml", outcome |-> "saved"])
       \/ ExportGoesOn(self, [by |-> "saveFcpxml", outcome |-> "threw"], "download")
    /\ UNCHANGED <<streamVars, trackerVars, replayVars, serviceVars>>

\* fallbackBrowserDownload (lines 162-183); when it throws, the catch of
\* line 125 logs the error.
fallbackBrowserDownload ==
    /\ self.pc = "download"
    /\ \/ ExportEnds([self EXCEPT !.exportComplete = TRUE],
                     [by |-> "download", outcome |-> "downloaded"])
       \/ ExportEnds(self, [by |-> "download", outcome |-> "threw"])
    /\ UNCHANGED <<streamVars, trackerVars, replayVars, serviceVars>>

NextExportManager ==
    \/ handleExport
    \/ exportBranch
    \/ saveFcpxmlToAudioDirSettles
    \/ fallbackElectronDialog
    \/ saveFcpxmlSettles
    \/ fallbackBrowserDownload

SpecExportManager == InitExportManager /\ [][NextExportManager]_vars

\* The place of an attempt in the fallback order.
FallbackRank(attempt) ==
    CASE attempt.by = "saveFcpxmlToAudioDir" -> 1
      [] attempt.by = "dialog" -> 2
      [] attempt.by = "saveFcpxml" -> 3
      [] attempt.by = "download" -> 4

\* The attempt saved or downloaded the file.
Succeeded(attempt) == attempt.outcome \in {"saved", "downloaded"}

\* C27: a handleExport that has ended left exportComplete TRUE where it was
\* FALSE only if its last attempt saved or downloaded the file, the
\* attempts before having failed in the fallback order; a cancelled dialog
\* leaves exportComplete and savedFilePath as they were; and isExporting is
\* FALSE when handleExport has ended.
C27_ExportCompleteOnlyAfterSave ==
    /\ (self.pc = "idle") => ~self.isExporting
    /\ \A i \in 1..Len(log) :
          LET e == log[i]
              n == Len(e.attempts)
              final == e.attempts[n]
          IN  /\ ~e.after.isExporting
              /\ n >= 1
              /\ (e.after.exportComplete /\ ~e.before.exportComplete) => Succeeded(final)
              /\ Succeeded(final) => e.after.exportComplete
              /\ \A k \in 1..(n - 1) :
                    /\ FallbackRank(e.attempts[k]) < FallbackRank(e.attempts[k + 1])
                    /\ e.attempts[k].outcome \in {"threw", "answered"}
              /\ (\E k \in 1..n : e.attempts[k].outcome = "canceled") =>
                    /\ e.after.exportComplete = e.before.exportComplete
                    /\ e.after.savedFilePath = e.before.savedFilePath
              /\ ~Succeeded(final) =>
                    /\ e.after.exportComplete = e.before.exportComplete
                    /\ e.after.savedFilePath = e.before.savedFilePath

\* An export whose automatic save failed and whose dialog was cancelled
\* ended without completing; the next one was saved through the dialog.
C27_Witness ==
    /\ Len(log) = 2 /\ self.pc = "idle"
    /\ Len(log[1].attempts) = 2
    /\ log[1].attempts[1] = [by |-> "saveFcpxmlToAudioDir", outcome |-> "threw"]
    /\ log[1].attempts[2].outcome = "canceled"
    /\ ~log[1].after.exportComplete
    /\ log[2].attempts[Len(log[2].attempts)].by = "saveFcpxml"
    /\ self.exportComplete /\ self.savedFilePath = "/chosen/song.fcpxml"

----------------------------------------------------------------------------
(* App (src/src/types/audio.ts): the state of useAppState and the handlers *)
(* that the components rendered in the current phase can fire.  self is    *)
(* the AppState; call is the last handler fired, with the state before it. *)

\* null, for the fields of AppState that hold an object or a text.
null == "null"

\* The state useAppState starts from (lines 272-280).
InitialAppState ==
    [phase |-> "upload", selectedFile |-> null, audioInfo |-> null,
     beatResult |-> null, markers |-> null, error |-> null, isLoading |-> FALSE]

\* updateState (lines 282-284): { ...prev, ...updates }.
updateState(prev, updates) ==
    [k \in DOMAIN prev |-> IF k \in DOMAIN updates THEN updates[k] ELSE prev[k]]

\* The update of handleFileSelected without the audio information.
FileSelectedUpdates_NoInfo(file, audioInfo) ==
    [selectedFile |-> file, phase |-> "info", error |-> null]

\* The update of handleFileSelected (lines 532-537).
FileSelectedUpdates(file, audioInfo) ==
    [selectedFile |-> file, audioInfo |-> audioInfo, phase |-> "info", error |-> null]

\* The update of handleContinueToAnalysis (lines 544-547) and of
\* handleBackToAnalysis (lines 568-571).
ToAnalysisUpdates == [phase |-> "analysis", error |-> null]

\* The update of handleAnalysisComplete (lines 556-561).
AnalysisCompleteUpdates(result, markers) ==
    [beatResult |-> result, markers |-> markers, phase |-> "export", error |-> null]

\* The update of handleStartNew (lines 578-586).
StartNewUpdates ==
    [phase |-> "upload", selectedFile |-> null, audioInfo |-> null,
     beatResult |-> null, markers |-> null, error |-> null, isLoading |-> FALSE]

\* The update of handleError (lines 595-598).
ErrorUpdates(error) == [error |-> error, isLoading |-> FALSE]

\* The files the uploader hands over, each with its information.
SelectedFiles == {"song.mp3", "take.wav"}

AudioInfoOf(file) == IF file = "song.mp3" THEN "info of song.mp3" ELSE "info of take.wav"

\* The results the analyzer hands over, with their marker lists (one of
\* them empty).
AnalysisResults == {"120 bpm", "90 bpm"}

MarkerListsOf(result) == IF result = "120 bpm" THEN "4 markers" ELSE "no markers"

ErrorTexts == {"Formato non supportato", "Analisi fallita"}

\* What AppContent renders (lines 394-496).
UploaderRendered == self.phase = "upload"

InfoRendered == self.phase = "info" /\ self.audioInfo # null

AnalyzerRendered ==
    self.phase = "analysis" /\ self.selectedFile # null /\ self.audioInfo # null

ExportManagerRendered ==
    /\ self.phase = "export" /\ self.selectedFile # null /\ self.audioInfo # null
    /\ self.beatResult # null /\ self.markers # null

\* The first render of App.
InitApp ==
    /\ NoStreamSession /\ NoTracker /\ NoReplay /\ NoService
    /\ self = InitialAppState
    /\ log = << >>

\* A handler fired: the state is updated and the handler is noted.
Fired(op, updates) ==
    /\ self' = updateState(self, updates)
    /\ call' = [op |-> op, before |-> self]
    /\ UNCHANGED <<ret, log, streamVars, trackerVars, replayVars>>

\* onFileSelected of AudioUploader (lines 529-538).
handleFileSelected ==
    /\ UploaderRendered
    /\ \E file \in SelectedFiles :
          Fired("handleFileSelected", FileSelectedUpdates(file, AudioInfoOf(file)))

\* The button of the info phase (lines 543-548).
handleContinueToAnalysis ==
    /\ InfoRendered
    /\ Fired("handleContinueToAnalysis", ToAnalysisUpdates)

\* onAnalysisComplete of BeatAnalyzer (lines 553-562).
handleAnalysisComplete ==
    /\ AnalyzerRendered
    /\ \E result \in AnalysisResults :
          Fired("handleAnalysisComplete",
                AnalysisCompleteUpdates(result, MarkerListsOf(result)))

\* onBackToAnalysis of ExportManager (lines 567-572).
handleBackToAnalysis ==
    /\ ExportManagerRendered
    /\ Fired("handleBackToAnalysis", ToAnalysisUpdates)

\* onStartNew of ExportManager (lines 577-587).
handleStartNew ==
    /\ ExportManagerRendered
    /\ Fired("handleStartNew", StartNewUpdates)

\* onError of AudioUploader and of BeatAnalyzer (lines 592-599).
handleError ==
    /\ UploaderRendered \/ AnalyzerRendered
    /\ \E error \in ErrorTexts : Fired("handleError", ErrorUpdates(error))

\* The button of the error banner (lines 624-629).
closeError ==
    /\ self.error # null
    /\ Fired("closeError", [error |-> null])

NextApp ==
    \/ handleFileSelected
    \/ handleContinueToAnalysis
    \/ handleAnalysisComplete
    \/ handleBackToAnalysis
    \/ handleStartNew
    \/ handleError
    \/ closeError

SpecApp == InitApp /\ [][NextApp]_vars

\* C28: the phase is 'upload' or a file and its information are selected;
\* in the phase 'export' the result and the markers are there; handleError
\* leaves the phase as it was; and handleStartNew leaves exactly the
\* initial state.
C28_AppStateMachine ==
    /\ self.phase = "upload" \/ (self.selectedFile # null /\ self.audioInfo # null)
    /\ (self.phase = "export") => (self.beatResult # null /\ self.markers # null)
    /\ (call.op = "handleError") => self.phase = call.before.phase
    /\ (call.op = "handleStartNew") => self = InitialAppState

\* A session that went back from the export to the analysis, failed there
\* and still holds the earlier result.
C28_Witness ==
    /\ call.op = "handleError"
    /\ self.phase = "analysis" /\ self.error # null
    /\ self.beatResult # null /\ self.markers # null

====
